---- MODULE Spec2Model ----
(***************************************************************************)
(* Tabular ingestion and schema normalisation engine of the elderly-       *)
(* dashboard repository (src/data_loader.py, date decoding of              *)
(* src/app203.py).                                                         *)
(*                                                                         *)
(* Text is modelled as a sequence of symbols.  A symbol is one character   *)
(* ("1", "-", ".", " ", "_", "/") or one indivisible word of the source's   *)
(* vocabulary, written in ASCII:                                           *)
(*   "xuhao" 序号        "bianhao" 编号      "fenji" 项目分级              *)
(*   "zhuanye" 专业      "jine" 拟定金额     "mingcheng" 项目名称          *)
(*   "beizhu" 备注       "yanshou" 验收      "shequ" 社区                  *)
(*   "yuanqu" 园区       "jiesuan" 结算      "chengjianzu" 拟定承建组      *)
(*   "zhi" 织 (拟定承建组织 = chengjianzu zhi)                             *)
(*   "xifen" 专业细分    "fenbao" 专业分包                                 *)
(*   "heji" 合计         "chae" 差额         "xiaoji" 小计   "hang" 行     *)
(*   "yusuan" 预算系统   "yanyuan" 燕园      "shuyuan" 蜀园                *)
(*   "weizhi" 未知园区   "BOM" the byte-order mark U+FEFF                  *)
(*   "riqi" 日期 (需求立项日期 = lixiang riqi)                             *)
(*   "chengshi" 城市     "quyu" 所属区域     "suozai" 所在城市             *)
(*   "yetai" 所属业态    "pingzheng" 上传凭证  "qita" 其他                 *)
(*   "shuoming" 说明 (备注说明 = beizhu shuoming)                          *)
(*   "jiaofu" 需求完成交付 (验收(社区需求完成交付) = yanshou ( shequ       *)
(*   jiaofu ), 验收(社区结算) = yanshou ( shequ jiesuan ))                 *)
(*   "heyuan" a park the lookup tables do not list; "beijing", "chengdu",  *)
(*   "shanghai" cities; "huabei", "xinan", "huadong" regions               *)
(*   "inf" the text inf, which pd.to_numeric reads as infinity             *)
(* The empty text is <<>>; a missing cell (NaN) prints as "nan".           *)
(***************************************************************************)
EXTENDS Integers, Sequences, FiniteSets, TLC

VARIABLES
    df_in,      \* _normalize_loaded_df: the table handed in (columns, rows)
    park_arg,   \* _normalize_loaded_df: the caller's park name, <<>> for None
    from_arg,   \* _normalize_loaded_df: default_园区_from (file stem or sheet name)
    df_out,     \* _normalize_loaded_df: the table returned
    norm_pc,    \* "build" while the caller assembles the table, "done" after the
                \* call, "raised" when the call raised, "enriched" after main
                \* added the city and region columns
    df_loc,     \* main: the table after _add_城市和区域列
    hdr_row0,   \* header resolution: physical row 1 of the block (business names)
    hdr_row1,   \* header resolution: physical row 2 of the block (timeline names)
    hdr_names,  \* header resolution: the names _parse_header_from_rows returned
    hdr_sheet,  \* header resolution: the answer of _is_progress_sheet
    hdr_pc,     \* "input", then "parsed", then "classified"
    date_kind,  \* date decoding: the series' dtype, "datetime" or "object"
    date_cells, \* date decoding: the series' cells
    date_result,\* date decoding: the series parse_date_series returned
    date_pc,    \* "input", "done" once decoded, then "masked" once flagged or
                \* "redone" once decoded again
    date_again, \* date decoding: parse_date_series of its own result
    date_cols,  \* stable-demand rule: the column names of the table; the series
                \* date_cells is its second column, the other cells are blank
    date_flags, \* stable-demand rule: the flags get_稳定需求_mask returned
    uniq_in,    \* _ensure_unique_columns: the table handed in
    uniq_out,   \* _ensure_unique_columns: the table returned
    uniq_pc,    \* "build", then "done"
    ld_kind,    \* loading: "csv" (load_single_csv), "xlsx" (load_single_xlsx),
                \* "uploaded" (load_uploaded) or "dir" (load_from_directory)
    ld_suffix,  \* loading: path.suffix.lower() without its dot
    ld_wb,      \* loading: the worksheets of the workbook, the one CSV file, or
                \* the CSV files of the directory in the order glob yields them
    ld_park,    \* loading: the caller's park name, <<>> for None
    ld_stem,    \* loading: path.stem, the file's name without its suffix
    ld_i,       \* worksheets (files) the loop has gone through
    ld_frames,  \* frames, the tables kept so far
    ld_calls,   \* loading: the tables handed to _normalize_loaded_df, in order
    ld_result,  \* loading: the table returned
    ld_pc,      \* "build", "loop" ("scan" for a directory), then "done", or
                \* "raised" for an exception
    diff_old,   \* _compute_df_diff: old_df, the stored table
    diff_new,   \* _compute_df_diff: new_df, the edited table
    diff_out,   \* _compute_df_diff: the dictionary returned
    diff_pc,    \* "build", then "done"
    db,         \* the table projects of the SQLite file; <<>> without a file
    db0,        \* the stored table before any session acted
    ses_df,     \* per session: df of the script run, from load_from_db
    ses_pc,     \* per session: "off", "idle", "loaded", then "done"
    ses_op      \* per session: the operation the wizard reported, with the
                \* stored table before and after its save_to_db

normVars == <<df_in, park_arg, from_arg, df_out, norm_pc, df_loc>>

hdrVars == <<hdr_row0, hdr_row1, hdr_names, hdr_sheet, hdr_pc>>

dateVars ==
    <<date_kind, date_cells, date_result, date_pc, date_again, date_cols, date_flags>>

uniqVars == <<uniq_in, uniq_out, uniq_pc>>

ldVars == <<ld_kind, ld_suffix, ld_wb, ld_park, ld_stem, ld_i, ld_frames, ld_calls, ld_result, ld_pc>>

diffVars == <<diff_old, diff_new, diff_out, diff_pc>>

dbVars == <<db, db0, ses_df, ses_pc, ses_op>>

vars == <<normVars, hdrVars, dateVars, uniqVars, ldVars, diffVars, dbVars>>

-----------------------------------------------------------------------------
(* Bounds *)

MaxRows == 2

\* blank cells before and after the timeline names of header row 2
MaxLead == 10

MaxTrail == 1

\* cells of a series handed to the date decoder
MaxSeries == 2

\* columns of a table handed to _ensure_unique_columns
MaxCols == 3

\* worksheets of a workbook
MaxSheets == 2

\* CSV files of a directory
MaxFiles == 2

\* rows of each table handed to _compute_df_diff
MaxDiffRows == 2

\* rows of the stored table before the sessions act
MaxDbRows == 3

\* rows of a table handed to location enrichment
MaxLocRows == 2

-----------------------------------------------------------------------------
(* Text helpers: str.strip, str.startswith, the "in" substring test *)

Digits == {"0", "1", "2", "3", "4", "5", "6", "7", "8", "9"}

RECURSIVE LStrip(_)
LStrip(s) == IF s # <<>> /\ s[1] = " " THEN LStrip(Tail(s)) ELSE s

RECURSIVE RStrip(_)
RStrip(s) ==
    IF s # <<>> /\ s[Len(s)] = " " THEN RStrip(SubSeq(s, 1, Len(s) - 1)) ELSE s

\* str.strip()
Strip(s) == RStrip(LStrip(s))

RECURSIVE LStripBOM(_)
LStripBOM(s) == IF s # <<>> /\ s[1] = "BOM" THEN LStripBOM(Tail(s)) ELSE s

RECURSIVE RStripBOM(_)
RStripBOM(s) ==
    IF s # <<>> /\ s[Len(s)] = "BOM" THEN RStripBOM(SubSeq(s, 1, Len(s) - 1)) ELSE s

\* str(x).strip().strip("\ufeff")
CleanName(s) == RStripBOM(LStripBOM(Strip(s)))

StartsWith(s, p) == Len(s) >= Len(p) /\ SubSeq(s, 1, Len(p)) = p

\* "w in s" for a one-symbol word w
Contains(s, w) == \E i \in 1..Len(s) : s[i] = w

\* "name in df.columns"
HasCol(cols, name) == \E i \in 1..Len(cols) : cols[i] = name

\* position of the first column called name (0 when there is none)
ColIndex(cols, name) ==
    IF HasCol(cols, name)
    THEN CHOOSE i \in 1..Len(cols) :
            cols[i] = name /\ \A j \in 1..(i - 1) : cols[j] # name
    ELSE 0

\* the subsequence of s at the positions keep holds of, order kept
RECURSIVE SelectIdx(_, _, _)
SelectIdx(s, keep, i) ==
    IF i > Len(s) THEN <<>>
    ELSE (IF i \in keep THEN <<s[i]>> ELSE <<>>) \o SelectIdx(s, keep, i + 1)

-----------------------------------------------------------------------------
(* Numbers in text: the regular expression ^\d+$ and pd.to_numeric *)

\* s.str.match(r"^\d+$")
AllDigits(s) == s # <<>> /\ \A i \in 1..Len(s) : s[i] \in Digits

Unsigned(t) == IF t # <<>> /\ t[1] \in {"-", "+"} THEN Tail(t) ELSE t

\* pd.to_numeric(x, errors="coerce").notna(): blanks around the number are
\* skipped, one sign, digits with at most one decimal point, a digit at least
ToNumericOk(s) ==
    LET b == Unsigned(Strip(s))
    IN  /\ \E i \in 1..Len(b) : b[i] \in Digits
        /\ \A i \in 1..Len(b) : b[i] \in Digits \cup {"."}
        /\ Cardinality({i \in 1..Len(b) : b[i] = "."}) <= 1

\* pd.to_numeric reads the cell as an infinity: the text inf, signed or not
NonFinite(s) == Unsigned(Strip(s)) = <<"inf">>

\* the digits before the decimal point
IntPart(b) ==
    IF Contains(b, ".")
    THEN SubSeq(b, 1, (CHOOSE i \in 1..Len(b) : b[i] = ".") - 1)
    ELSE b

RECURSIVE DropZeros(_)
DropZeros(d) == IF Len(d) > 1 /\ d[1] = "0" THEN DropZeros(Tail(d)) ELSE d

\* pd.to_numeric(x, errors="coerce").fillna(0).astype(int), printed as text
AmountToInt(s) ==
    IF ~ToNumericOk(s) THEN <<"0">>
    ELSE LET t == Strip(s)
             d == DropZeros(IntPart(Unsigned(t)))
             mag == IF d = <<>> THEN <<"0">> ELSE d
         IN  IF t[1] = "-" /\ mag # <<"0">> THEN <<"-">> \o mag ELSE mag

-----------------------------------------------------------------------------
(* A table (DataFrame): cols, the column names, and rows, each a sequence  *)
(* of cells as long as cols.  A cell is the text str() prints for it.      *)

Table(cols, rows) == [cols |-> cols, rows |-> rows]

EmptyTable == Table(<<>>, <<>>)

\* DataFrame.empty
IsEmpty(df) == Len(df.cols) = 0 \/ Len(df.rows) = 0

\* df.loc[mask]: the rows at the positions in keep
FilterRows(df, keep) == Table(df.cols, SelectIdx(df.rows, keep, 1))

\* df.rename(columns={old: new})
RenameCol(df, old, new) ==
    Table([i \in 1..Len(df.cols) |-> IF df.cols[i] = old THEN new ELSE df.cols[i]],
          df.rows)

\* df[name] = value for a name the table lacks: one more column
AddConstCol(df, name, value) ==
    Table(Append(df.cols, name),
          [r \in 1..Len(df.rows) |-> Append(df.rows[r], value)])

\* df[name] = df[src] for a name the table lacks
AddCopyCol(df, name, src) ==
    LET k == ColIndex(df.cols, src)
    IN  Table(Append(df.cols, name),
              [r \in 1..Len(df.rows) |-> Append(df.rows[r], df.rows[r][k])])

-----------------------------------------------------------------------------
(* _normalize_loaded_df, src/data_loader.py lines 75-152 *)

\* PARK_TOKENS, in the source's order (two of its twenty-four names)
PARK_TOKENS == <<"yanyuan", "shuyuan">>

\* the reserved park name of a table whose park cannot be told
UnknownPark == <<"weizhi">>

\* df.head(10)
HeadRows == 10

\* the alternatives of the regular expression ^(合计|差额|小计|合计行)
SummaryTokens == {<<"heji">>, <<"chae">>, <<"xiaoji">>, <<"heji", "hang">>}

\* TIMELINE_COL_MAP, line 12: the two source labels of 验收
AcceptanceLabels ==
    { <<"yanshou", "(", "shequ", "jiaofu", ")">>,
      <<"yanshou", "(", "shequ", "jiesuan", ")">> }

\* lines 84-85 with the test for 社区 replaced by a test for 结算
RenameAcceptance_SettlementOnly(n) ==
    IF n # <<>> /\ Contains(n, "yanshou") /\ Contains(n, "jiesuan")
    THEN <<"yanshou">> ELSE n

\* lines 83-85: a name holding both 验收 and 社区 becomes 验收
RenameAcceptance(n) ==
    IF n # <<>> /\ Contains(n, "yanshou") /\ Contains(n, "shequ")
    THEN <<"yanshou">> ELSE n

\* lines 82-89: the names as cleaned, 拟定承建组 renamed to 拟定承建组织
NormalizeNames(df) ==
    LET d1 == Table([i \in 1..Len(df.cols) |-> CleanName(RenameAcceptance(df.cols[i]))],
                    df.rows)
    IN  IF HasCol(d1.cols, <<"chengjianzu">>)
           /\ ~HasCol(d1.cols, <<"chengjianzu", "zhi">>)
        THEN RenameCol(d1, <<"chengjianzu">>, <<"chengjianzu", "zhi">>)
        ELSE d1

\* lines 91-97: the sequence-number column: 序号, else 编号, else the first
\* column (0: the table has no column)
SeqColIndex(cols) ==
    IF HasCol(cols, <<"xuhao">>) THEN ColIndex(cols, <<"xuhao">>)
    ELSE IF HasCol(cols, <<"bianhao">>) THEN ColIndex(cols, <<"bianhao">>)
    ELSE IF Len(cols) > 0 THEN 1 ELSE 0

\* lines 99-102: digit_ok | numeric_ok (an infinity is not NaN)
SeqCellValid(c) == AllDigits(Strip(c)) \/ ToNumericOk(c) \/ NonFinite(c)

\* line 106: the cell, stripped, starts with a summary token
IsSummaryCell(c) == \E t \in SummaryTokens : StartsWith(Strip(c), t)

\* lines 98-103 with the filter left out
FilterValidSeq_NoFilter(df) == df

\* lines 98-103
FilterValidSeq(df) ==
    LET k == SeqColIndex(df.cols)
    IN  IF k = 0 THEN df
        ELSE FilterRows(df, {r \in 1..Len(df.rows) : SeqCellValid(df.rows[r][k])})

\* lines 104-106 with the test run on every cell of the row
FilterSummary_AnyCell(df, seqName) ==
    IF seqName # <<>> /\ HasCol(df.cols, seqName)
    THEN FilterRows(df, {r \in 1..Len(df.rows) :
                            \A c \in 1..Len(df.cols) : ~IsSummaryCell(df.rows[r][c])})
    ELSE df

\* lines 104-106: skipped when the sequence column's name is empty
FilterSummary(df, seqName) ==
    IF seqName # <<>> /\ HasCol(df.cols, seqName)
    THEN LET k == ColIndex(df.cols, seqName)
         IN  FilterRows(df, {r \in 1..Len(df.rows) : ~IsSummaryCell(df.rows[r][k])})
    ELSE df

\* line 108: .astype(int) raises on an infinity, which fillna(0) leaves
CoerceAmountRaises(df) ==
    /\ HasCol(df.cols, <<"jine">>)
    /\ \E r \in 1..Len(df.rows) : NonFinite(df.rows[r][ColIndex(df.cols, <<"jine">>)])

\* lines 107-108 with the rows of unparseable amount dropped, not zeroed
CoerceAmount_DropUnparsed(df) ==
    IF HasCol(df.cols, <<"jine">>)
    THEN LET k == ColIndex(df.cols, <<"jine">>)
             d == FilterRows(df, {r \in 1..Len(df.rows) : ToNumericOk(df.rows[r][k])})
         IN  Table(d.cols,
                   [r \in 1..Len(d.rows) |->
                       [d.rows[r] EXCEPT ![k] = AmountToInt(d.rows[r][k])]])
    ELSE df

\* lines 107-108
CoerceAmount(df) ==
    IF HasCol(df.cols, <<"jine">>)
    THEN LET k == ColIndex(df.cols, <<"jine">>)
         IN  Table(df.cols,
                   [r \in 1..Len(df.rows) |->
                       [df.rows[r] EXCEPT ![k] = AmountToInt(df.rows[r][k])]])
    ELSE df

\* lines 110-111
RenameCommunity(df) ==
    IF HasCol(df.cols, <<"shequ">>) /\ ~HasCol(df.cols, <<"yuanqu">>)
    THEN RenameCol(df, <<"shequ">>, <<"yuanqu">>)
    ELSE df

\* lines 114-117
AliasSubtype(df) ==
    IF HasCol(df.cols, <<"xifen">>) /\ ~HasCol(df.cols, <<"fenbao">>)
    THEN AddCopyCol(df, <<"fenbao">>, <<"xifen">>)
    ELSE IF HasCol(df.cols, <<"fenbao">>) /\ ~HasCol(df.cols, <<"xifen">>)
    THEN AddCopyCol(df, <<"xifen">>, <<"fenbao">>)
    ELSE df

\* the first token of PARK_TOKENS the text holds, <<>> when it holds none
RECURSIVE FirstToken(_, _)
FirstToken(text, i) ==
    IF i > Len(PARK_TOKENS) THEN <<>>
    ELSE IF Contains(text, PARK_TOKENS[i]) THEN <<PARK_TOKENS[i]>>
    ELSE FirstToken(text, i + 1)

\* lines 137-145: the first of the first ten rows whose project name holds a token
RECURSIVE ParkFromData(_, _, _)
ParkFromData(df, k, r) ==
    IF r > Len(df.rows) \/ r > HeadRows THEN <<>>
    ELSE IF FirstToken(df.rows[r][k], 1) # <<>> THEN FirstToken(df.rows[r][k], 1)
    ELSE ParkFromData(df, k, r + 1)

\* lines 120-151: the park column, added only when the table has none
AddPark(df, park, from) ==
    IF HasCol(df.cols, <<"yuanqu">>) THEN df
    ELSE IF park # <<>> THEN AddConstCol(df, <<"yuanqu">>, park)
    ELSE IF FirstToken(from, 1) # <<>>
    THEN AddConstCol(df, <<"yuanqu">>, FirstToken(from, 1))
    ELSE LET found == IF HasCol(df.cols, <<"mingcheng">>)
                      THEN ParkFromData(df, ColIndex(df.cols, <<"mingcheng">>), 1)
                      ELSE <<>>
         IN  IF found # <<>> THEN AddConstCol(df, <<"yuanqu">>, found)
             ELSE AddConstCol(df, <<"yuanqu">>, UnknownPark)

\* lines 75-108: the call raises (the amount column of the rows that passed
\* the two filters holds an infinity)
NormalizeRaises(df) ==
    /\ ~IsEmpty(df)
    /\ LET d1 == NormalizeNames(df)
           k  == SeqColIndex(d1.cols)
           seqName == IF k = 0 THEN <<>> ELSE d1.cols[k]
       IN  CoerceAmountRaises(FilterSummary(FilterValidSeq(d1), seqName))

\* lines 75-152, when the call returns
NormalizeLoadedDf(df, park, from) ==
    IF IsEmpty(df) THEN df
    ELSE LET d1 == NormalizeNames(df)
             k  == SeqColIndex(d1.cols)
             seqName == IF k = 0 THEN <<>> ELSE d1.cols[k]
             d2 == FilterValidSeq(d1)
             d3 == FilterSummary(d2, seqName)
             d4 == CoerceAmount(d3)
             d5 == RenameCommunity(d4)
             d6 == AliasSubtype(d5)
         IN  AddPark(d6, park, from)

-----------------------------------------------------------------------------
(* Row sanitisation as a state machine: a caller assembles a table row by  *)
(* row, then calls _normalize_loaded_df once.                              *)

\* header rows a progress table arrives with: 序号 first, 编号 first, an
\* unnamed first column, a 社区 column beside 序号
HeaderChoices ==
    { <<<<"xuhao">>, <<"mingcheng">>, <<"jine">>>>,
      <<<<"bianhao">>, <<"mingcheng">>, <<" ", "jine">>>>,
      <<<<>>, <<"mingcheng">>, <<"jine">>>>,
      <<<<"BOM", "xuhao">>, <<"shequ">>, <<"jine">>>>,
      <<<<"xuhao">>, <<"yanshou", "(", "shequ", "jiesuan", ")">>, <<"jine">>>>,
      <<<<"xuhao">>, <<" ", "yanshou", "(", "shequ", "jiaofu", ")">>, <<"jine">>>> }

\* sequence-number cells: digits, padded digits, a negative, a decimal, a
\* missing cell, an empty one, the summary labels, other text
SeqCells ==
    { <<"1">>, <<"1", "2">>, <<" ", "3", " ">>, <<"0">>,
      <<"-", "5">>, <<"1", ".", "5">>,
      <<"n", "a", "n">>, <<>>, <<"x">>,
      <<"heji">>, <<" ", "heji">>, <<"heji", "hang">>, <<"xiaoji">>, <<"chae">>,
      <<"yusuan", "heji">> }

\* data rows: every sequence cell beside a plain name and amount, and a few
\* rows whose name or amount is unusual
RowChoices ==
    { <<c, <<"p">>, <<"7">>>> : c \in SeqCells }
    \cup { <<<<"1">>, <<"yanyuan", "p">>, <<"x">>>>,
           <<<<"2">>, <<"shuyuan">>, <<"1", ".", "5">>>>,
           <<<<"heji">>, <<"yanyuan", "p">>, <<"9", "9">>>>,
           <<<<"3">>, <<"p">>, <<"n", "a", "n">>>>,
           <<<<"4">>, <<"p">>, <<"-", "inf">>>>,
           <<<<"x">>, <<"p">>, <<"inf">>>>,
           <<<<"5">>, <<"heji">>, <<"7">>>> }

ParkArgs == { <<>>, <<"shuyuan">> }

FromArgs == { <<"biao">>, <<"yanyuan", "biao">> }

NormInit ==
    /\ \E h \in HeaderChoices : df_in = Table(h, <<>>)
    /\ park_arg \in ParkArgs
    /\ from_arg \in FromArgs
    /\ df_out = EmptyTable
    /\ norm_pc = "build"
    /\ df_loc = EmptyTable

\* the caller appends one data row
AddRow ==
    /\ norm_pc = "build"
    /\ Len(df_in.rows) < MaxRows
    /\ \E r \in RowChoices : df_in' = Table(df_in.cols, Append(df_in.rows, r))
    /\ UNCHANGED <<park_arg, from_arg, df_out, norm_pc, df_loc>>
    /\ UNCHANGED <<hdrVars, dateVars, uniqVars, ldVars, diffVars, dbVars>>

\* the call of _normalize_loaded_df
Normalize ==
    /\ norm_pc = "build"
    /\ IF NormalizeRaises(df_in)
       THEN norm_pc' = "raised" /\ UNCHANGED df_out
       ELSE /\ df_out' = NormalizeLoadedDf(df_in, park_arg, from_arg)
            /\ norm_pc' = "done"
    /\ UNCHANGED <<df_in, park_arg, from_arg, df_loc>>
    /\ UNCHANGED <<hdrVars, dateVars, uniqVars, ldVars, diffVars, dbVars>>

-----------------------------------------------------------------------------
(* Header resolution and sheet classification, src/data_loader.py 31-72    *)
(*   "fenlei" 项目分类   "guanzhu" 总部重点关注项目                        *)
(*   "lixiang" 需求立项  "shenhe" 需求审核   "fangan" 规划设计方案         *)
(*   "hesuan" 成本核算   "juece" 项目决策    "zhaocai" 招采                *)
(*   "shishi" 实施       "biaoti" a title cell of a decorative sheet       *)

\* TIMELINE_COLS
TIMELINE_COLS ==
    << <<"lixiang">>, <<"shenhe">>, <<"fangan">>, <<"hesuan">>, <<"juece">>,
       <<"zhaocai">>, <<"shishi">>, <<"yanshou">>, <<"jiesuan">> >>

\* n_time = len(TIMELINE_COLS)
NTime == Len(TIMELINE_COLS)

Min(a, b) == IF a <= b THEN a ELSE b

Max(a, b) == IF a >= b THEN a ELSE b

\* n copies of the text c
Repeat(c, n) == [i \in 1..n |-> c]

\* line 58: how many names row 1 gives
NFirst(len0) == IF len0 >= 8 THEN Min(9, len0) ELSE len0

\* line 60: the offset in row 2 at which the timeline names are read
TimelineStart(len1) ==
    IF len1 >= 8 + NTime THEN 8
    ELSE IF len1 >= 9 + NTime THEN 9
    ELSE Max(0, len1 - NTime)

\* lines 61-63 with no padding (a forgotten while loop)
TimelinePart_NoPad(line1) ==
    LET start == TimelineStart(Len(line1))
    IN  SubSeq(line1, start + 1, Min(start + NTime, Len(line1)))

\* lines 60-63: line1[start : start + n_time], padded with "" to n_time names
TimelinePart(line1) ==
    LET start == TimelineStart(Len(line1))
        part2 == SubSeq(line1, start + 1, Min(start + NTime, Len(line1)))
    IN  part2 \o Repeat(<<>>, NTime - Len(part2))

\* lines 54-64 (_parse_header, lines 34-45, does the same on the two lines
\* of a CSV file)
ParseHeaderFromRows(row0, row1) ==
    LET line0 == [i \in 1..Len(row0) |-> CleanName(row0[i])]
        line1 == [i \in 1..Len(row1) |-> Strip(row1[i])]
        part1 == SubSeq(line0, 1, NFirst(Len(line0)))
        part2 == TimelinePart(line1)
    IN  part1 \o SubSeq(part2, 1, Min(NTime, Len(part2)))

\* lines 67-72 with "and" slipped to "or"
IsProgressSheet_Or(names) ==
    LET names_set == { Strip(names[i]) : i \in { j \in 1..Len(names) : names[j] # <<>> } }
    IN  \/ <<"xuhao">> \in names_set \/ <<"bianhao">> \in names_set
        \/ \E k \in { <<"fenji">>, <<"zhuanye">>, <<"jine">>, <<"mingcheng">> } :
              k \in names_set

\* lines 67-72
IsProgressSheet(names) ==
    LET names_set == { Strip(names[i]) : i \in { j \in 1..Len(names) : names[j] # <<>> } }
        has_seq == <<"xuhao">> \in names_set \/ <<"bianhao">> \in names_set
        has_key == \E k \in { <<"fenji">>, <<"zhuanye">>, <<"jine">>, <<"mingcheng">> } :
                      k \in names_set
    IN  has_seq /\ has_key

\* the business names of header row 1, a remarks column last
BusinessRow ==
    << <<"xuhao">>, <<"fenji">>, <<"fenlei">>, <<"zhuanye">>, <<"xifen">>,
       <<"mingcheng">>, <<"jine">>, <<"guanzhu">>, <<"chengjianzu">>, <<"beizhu">> >>

\* the timeline names as a file writes them in header row 2
TimelineRow ==
    << <<"lixiang">>, <<" ", "shenhe">>, <<"fangan">>, <<"hesuan">>, <<"juece">>,
       <<"zhaocai">>, <<"shishi">>,
       <<"yanshou", "(", "shequ", "jiesuan", ")">>, <<"jiesuan">> >>

\* header rows 1: the business names cut at any column, and rows that lack a
\* sequence column, a key column, or both
Row0Choices ==
    { SubSeq(BusinessRow, 1, n) : n \in 0..Len(BusinessRow) }
    \cup { << <<"BOM", "bianhao">>, <<" ", "zhuanye", " ">> >>,
           << <<"bianhao">>, <<"beizhu">> >>,
           << <<"biaoti">> >>,
           << <<"fenji">>, <<"mingcheng">>, <<"jine">> >>,
           << <<"xuhao", "hang">>, <<"mingcheng">> >>,
           << <<"xuhao">>, <<"beizhu">>, <<"beizhu">> >> }

\* header rows 2: blank cells, then the first k timeline names, then blanks
Row1Choices ==
    { Repeat(<<>>, lead) \o SubSeq(TimelineRow, 1, k) \o Repeat(<<>>, trail) :
        lead \in 0..MaxLead, k \in 0..Len(TimelineRow), trail \in 0..MaxTrail }

HdrInit ==
    /\ hdr_row0 \in Row0Choices
    /\ hdr_row1 \in Row1Choices
    /\ hdr_names = <<>>
    /\ hdr_sheet = FALSE
    /\ hdr_pc = "input"

\* the call of _parse_header_from_rows
ParseHeader ==
    /\ hdr_pc = "input"
    /\ hdr_names' = ParseHeaderFromRows(hdr_row0, hdr_row1)
    /\ hdr_pc' = "parsed"
    /\ UNCHANGED <<hdr_row0, hdr_row1, hdr_sheet>>
    /\ UNCHANGED <<normVars, dateVars, uniqVars, ldVars, diffVars, dbVars>>

\* the call of _is_progress_sheet on the resolved names
Classify ==
    /\ hdr_pc = "parsed"
    /\ hdr_sheet' = IsProgressSheet(hdr_names)
    /\ hdr_pc' = "classified"
    /\ UNCHANGED <<hdr_row0, hdr_row1, hdr_names>>
    /\ UNCHANGED <<normVars, dateVars, uniqVars, ldVars, diffVars, dbVars>>

-----------------------------------------------------------------------------
(* Date decoding: parse_date_series, src/app203.py 1597-1634              *)
(* (parse_impl_date, lines 1017-1046, is the same code)                    *)

\* a calendar date; NaT is the absent date
Date(y, m, d) == [y |-> y, m |-> m, d |-> d]

NaT == Date(0, 0, 0)

\* Excel serials accepted by the serial branch (lines 1613)
SerialMin == 1

SerialMax == 100000

\* days from 0000-03-01 to the origin 1899-12-30
OriginDays == 693899

\* pd.to_datetime(n, unit='D', origin='1899-12-30'): the civil date n days
\* after the origin
DateOfSerial(n) ==
    LET z   == n + OriginDays
        era == z \div 146097
        doe == z % 146097
        yoe == (doe - doe \div 1460 + doe \div 36524 - doe \div 146096) \div 365
        doy == doe - (365 * yoe + yoe \div 4 - yoe \div 100)
        mp  == (5 * doy + 2) \div 153
        d   == doy - (153 * mp + 2) \div 5 + 1
        m   == IF mp < 10 THEN mp + 3 ELSE mp - 9
        y   == yoe + era * 400 + (IF m <= 2 THEN 1 ELSE 0)
    IN  Date(y, m, d)

DigitValue(c) ==
    CASE c = "0" -> 0 [] c = "1" -> 1 [] c = "2" -> 2 [] c = "3" -> 3
      [] c = "4" -> 4 [] c = "5" -> 5 [] c = "6" -> 6 [] c = "7" -> 7
      [] c = "8" -> 8 [] c = "9" -> 9

\* the number a text of digits writes (0 for the empty text)
RECURSIVE DigitsToNat(_)
DigitsToNat(s) ==
    IF s = <<>> THEN 0
    ELSE 10 * DigitsToNat(SubSeq(s, 1, Len(s) - 1)) + DigitValue(s[Len(s)])

\* the digits after the decimal point
FracPart(b) ==
    IF Contains(b, ".")
    THEN SubSeq(b, (CHOOSE i \in 1..Len(b) : b[i] = ".") + 1, Len(b))
    ELSE <<>>

\* lines 1609-1613 with the upper limit of the window left out
InSerialRange_NoUpper(s) ==
    /\ ToNumericOk(s)
    /\ LET t == Strip(s)
       IN  t[1] # "-" /\ DigitsToNat(IntPart(Unsigned(t))) >= SerialMin

\* lines 1609-1613: the text is a number n with 1 <= n <= 100000
InSerialRange(s) ==
    /\ ToNumericOk(s)
    /\ LET t == Strip(s)
           b == Unsigned(t)
           whole == DigitsToNat(IntPart(b))
           fracZero == \A i \in 1..Len(FracPart(b)) : FracPart(b)[i] = "0"
       IN  /\ t[1] # "-"
           /\ whole >= SerialMin
           /\ whole < SerialMax \/ (whole = SerialMax /\ fracZero)

\* numeric.astype(int)
SerialOf(s) == DigitsToNat(IntPart(Unsigned(Strip(s))))

\* result.mask(result.dt.year == 1900, pd.NaT)
Mask1900(d) == IF d.y = 1900 THEN NaT ELSE d

\* the texts between the separators sep of t
RECURSIVE Split(_, _)
Split(t, sep) ==
    IF ~Contains(t, sep) THEN <<t>>
    ELSE LET i == CHOOSE j \in 1..Len(t) :
                     t[j] = sep /\ \A k \in 1..(j - 1) : t[k] # sep
         IN  <<SubSeq(t, 1, i - 1)>> \o Split(SubSeq(t, i + 1, Len(t)), sep)

IsLeap(y) == (y % 4 = 0 /\ y % 100 # 0) \/ y % 400 = 0

DaysIn(y, m) ==
    IF m = 2 THEN (IF IsLeap(y) THEN 29 ELSE 28)
    ELSE IF m \in {4, 6, 9, 11} THEN 30 ELSE 31

ValidDate(y, m, d) == y >= 1678 /\ y <= 2261 /\ m \in 1..12 /\ d >= 1 /\ d <= DaysIn(y, m)

\* pd.to_datetime(text, format='mixed', errors='coerce') on the two layouts
\* the progress sheets use, year-month-day with "-" and month/day/year
\* with "/"; any other text is not a date
ToDatetimeMixed(t) ==
    LET iso == Split(t, "-")
        us  == Split(t, "/")
    IN  IF Len(iso) = 3 /\ (\A i \in 1..3 : AllDigits(iso[i]))
           /\ Len(iso[1]) = 4 /\ Len(iso[2]) <= 2 /\ Len(iso[3]) <= 2
        THEN LET y == DigitsToNat(iso[1])
                 m == DigitsToNat(iso[2])
                 d == DigitsToNat(iso[3])
             IN  IF ValidDate(y, m, d) THEN Date(y, m, d) ELSE NaT
        ELSE IF Len(us) = 3 /\ (\A i \in 1..3 : AllDigits(us[i]))
                /\ Len(us[1]) <= 2 /\ Len(us[2]) <= 2 /\ Len(us[3]) = 4
        THEN LET y == DigitsToNat(us[3])
                 m == DigitsToNat(us[1])
                 d == DigitsToNat(us[2])
             IN  IF ValidDate(y, m, d) THEN Date(y, m, d) ELSE NaT
        ELSE NaT

\* lines 1628: the texts replaced by NA
NullTexts == { <<>>, <<"n", "a", "n">>, <<"N", "o", "n", "e">>, <<"N", "a", "T">> }

\* lines 1627-1632: the string branch on one cell
StringBranch(text) ==
    LET t == Strip(text)
    IN  IF t \in NullTexts THEN NaT
        ELSE IF StartsWith(t, <<"1", "9", "0", "0">>) THEN NaT
        ELSE ToDatetimeMixed(t)

\* a cell of a series: text, what str() prints for a cell of an object
\* series, and date, the value of a cell of a datetime64 series
Cell(text, date) == [text |-> text, date |-> date]

\* lines 1597-1634 with a string branch that writes every cell of the series
ParseDateSeries_StringEverywhere(kind, cells) ==
    IF kind = "datetime"
    THEN [i \in 1..Len(cells) |-> Mask1900(cells[i].date)]
    ELSE [i \in 1..Len(cells) |-> StringBranch(cells[i].text)]

\* lines 1597-1634
ParseDateSeries(kind, cells) ==
    IF kind = "datetime"
    THEN [i \in 1..Len(cells) |-> Mask1900(cells[i].date)]
    ELSE LET n == Len(cells)
             anyNumeric == \E i \in 1..n : ToNumericOk(cells[i].text)
             excel_mask == [i \in 1..n |-> anyNumeric /\ InSerialRange(cells[i].text)]
             anyExcel == \E i \in 1..n : excel_mask[i]
             result1 == [i \in 1..n |->
                           IF anyExcel /\ excel_mask[i]
                           THEN Mask1900(DateOfSerial(SerialOf(cells[i].text)))
                           ELSE NaT]
             str_mask == [i \in 1..n |-> ~excel_mask[i] /\ result1[i] = NaT]
         IN  [i \in 1..n |->
                 IF str_mask[i] THEN StringBranch(cells[i].text) ELSE result1[i]]

\* cells of a datetime64 series
NativeCells ==
    { Cell(<<>>, d) : d \in { NaT, Date(1900, 1, 6), Date(1900, 12, 31),
                              Date(1899, 12, 31), Date(2024, 3, 15), Date(2000, 1, 1) } }

\* cells of an object series: serial numbers, dates written as text, blanks
TextCells ==
    { Cell(t, NaT) : t \in
        { <<"1">>, <<"2">>, <<"3", "6", "6">>, <<"3", "6", "7">>,
          <<"4", "5", "0", "0", "0">>, <<"1", "0", "0", "0", "0", "0">>,
          <<"1", "0", "0", "0", "0", "1">>, <<"-", "1", "4">>,
          <<"8", ".", "5">>, <<"0">>,
          <<"2", "0", "2", "4", "-", "0", "3", "-", "1", "5">>,
          <<"1", "9", "0", "0", "-", "0", "1", "-", "0", "6">>,
          <<" ", "1", "9", "0", "0", "-", "0", "1", "-", "0", "6">>,
          <<"1", "/", "6", "/", "1", "9", "0", "0">>,
          <<"3", "/", "1", "5", "/", "2", "0", "2", "4">>,
          <<>>, <<"n", "a", "n">>, <<"N", "a", "T">>, <<"x">> } }

\* 2000, the first year of a real requirement approval (line 436)
StableYear == 2000

\* pd.to_datetime(s, errors="coerce", format="mixed"), data_loader.py line
\* 434, on one cell: a date stays; a number is read as nanoseconds after
\* 1970-01-01 (as a numeral text it is refused), no serial is decoded; any
\* other text is parsed as a date
MixedDate(kind, c) ==
    IF kind = "datetime" THEN c.date
    ELSE IF ToNumericOk(c.text) THEN Date(1970, 1, 1)
    ELSE ToDatetimeMixed(Strip(c.text))

\* lines 422-426: the first column whose name holds 需求立项 (0: none)
ApprovalColumn(cols) ==
    IF \E i \in 1..Len(cols) : Contains(cols[i], "lixiang")
    THEN CHOOSE i \in 1..Len(cols) :
            /\ Contains(cols[i], "lixiang")
            /\ \A j \in 1..(i - 1) : ~Contains(cols[j], "lixiang")
    ELSE 0

\* lines 416-437 with the test for a missing column left out: the second
\* column is read whatever its name
GetStableMask_AnyColumn(cols, kind, cells) ==
    [i \in 1..Len(cells) |->
        LET dt == MixedDate(kind, cells[i])
        IN  dt # NaT /\ dt.y >= StableYear]

\* get_稳定需求_mask, lines 416-437, on a table of columns cols whose second
\* column holds cells (a series of dtype kind) and whose other cells are blank
GetStableMask(cols, kind, cells) ==
    [i \in 1..Len(cells) |->
        LET k  == ApprovalColumn(cols)
            dt == IF k = 2 THEN MixedDate(kind, cells[i])
                  ELSE MixedDate("object", Cell(<<>>, NaT))
        IN  k # 0 /\ dt # NaT /\ dt.y >= StableYear]

\* the names of a table's columns: 需求立项 second, 需求立项日期 second, no
\* such column, and a column 需求立项备注 before the dates
ColsChoices ==
    { << <<"xuhao">>, <<"lixiang">> >>,
      << <<"xuhao">>, <<"lixiang", "riqi">> >>,
      << <<"xuhao">>, <<"shenhe">> >>,
      << <<"lixiang", "beizhu">>, <<"lixiang">> >> }

DateInit ==
    /\ date_kind \in {"datetime", "object"}
    /\ date_cells = <<>>
    /\ date_result = <<>>
    /\ date_pc = "input"
    /\ date_again = <<>>
    /\ date_cols \in ColsChoices
    /\ date_flags = <<>>

\* the caller's column gets one more cell
AddCell ==
    /\ date_pc = "input"
    /\ Len(date_cells) < MaxSeries
    /\ \E c \in (IF date_kind = "datetime" THEN NativeCells ELSE TextCells) :
          date_cells' = Append(date_cells, c)
    /\ UNCHANGED <<date_kind, date_result, date_pc, date_again, date_cols, date_flags>>
    /\ UNCHANGED <<normVars, hdrVars, uniqVars, ldVars, diffVars, dbVars>>

\* the call of parse_date_series
ParseDates ==
    /\ date_pc = "input"
    /\ date_result' = ParseDateSeries(date_kind, date_cells)
    /\ date_pc' = "done"
    /\ UNCHANGED <<date_kind, date_cells, date_again, date_cols, date_flags>>
    /\ UNCHANGED <<normVars, hdrVars, uniqVars, ldVars, diffVars, dbVars>>

\* parse_date_series called on the series it returned (dtype datetime64)
Redecode ==
    /\ date_pc = "done"
    /\ date_again' = ParseDateSeries("datetime",
                          [i \in 1..Len(date_result) |-> Cell(<<>>, date_result[i])])
    /\ date_pc' = "redone"
    /\ UNCHANGED <<date_kind, date_cells, date_result, date_cols, date_flags>>
    /\ UNCHANGED <<normVars, hdrVars, uniqVars, ldVars, diffVars, dbVars>>

\* the call of get_稳定需求_mask on the table
StableMask ==
    /\ date_pc = "done"
    /\ date_flags' = GetStableMask(date_cols, date_kind, date_cells)
    /\ date_pc' = "masked"
    /\ UNCHANGED <<date_kind, date_cells, date_result, date_again, date_cols>>
    /\ UNCHANGED <<normVars, hdrVars, uniqVars, ldVars, diffVars, dbVars>>

-----------------------------------------------------------------------------
(* _ensure_unique_columns, src/data_loader.py 273-292                      *)

DigitText(n) ==
    CASE n = 0 -> "0" [] n = 1 -> "1" [] n = 2 -> "2" [] n = 3 -> "3"
      [] n = 4 -> "4" [] n = 5 -> "5" [] n = 6 -> "6" [] n = 7 -> "7"
      [] n = 8 -> "8" [] n = 9 -> "9"

\* str(n) of a natural number, as an f-string prints it
RECURSIVE IntToText(_)
IntToText(n) ==
    IF n < 10 THEN <<DigitText(n)>>
    ELSE IntToText(n \div 10) \o <<DigitText(n % 10)>>

\* df.columns.is_unique
IsUnique(cols) == \A i, j \in 1..Len(cols) : cols[i] = cols[j] => i = j

\* line 282: the key of column c at 0-based index i
UniqueKey(c, i) ==
    LET name == Strip(c)
    IN  IF name # <<>> THEN name ELSE <<"__empty", "_">> \o IntToText(i)

\* lines 280-289: the loop from column k on (k is 1-based; the source's i is
\* k - 1); seen maps each key met so far to its count
RECURSIVE UniqueLoop(_, _, _)
UniqueLoop(cols, k, seen) ==
    IF k > Len(cols) THEN <<>>
    ELSE LET c    == cols[k]
             i    == k - 1
             name == Strip(c)
             key  == UniqueKey(c, i)
         IN  IF key \notin DOMAIN seen
             THEN << IF name # <<>> THEN c ELSE <<"Unnamed", "_">> \o IntToText(i) >>
                  \o UniqueLoop(cols, k + 1,
                                [x \in DOMAIN seen \cup {key} |->
                                    IF x = key THEN 0 ELSE seen[x]])
             ELSE LET suffix == seen[key] + 2
                  IN  << IF name # <<>>
                         THEN name \o <<"_">> \o IntToText(suffix)
                         ELSE <<"Unnamed", "_">> \o IntToText(i) \o <<"_">>
                              \o IntToText(suffix) >>
                      \o UniqueLoop(cols, k + 1,
                                    [seen EXCEPT ![key] = seen[key] + 1])

\* the function with the empty domain: seen = {}
EmptyMap == [x \in {} |-> 0]

\* lines 273-292
EnsureUniqueColumns(df) ==
    IF IsUnique(df.cols) THEN df
    ELSE Table(UniqueLoop(df.cols, 1, EmptyMap), df.rows)

\* column names of a normalised table: names, an unnamed column, and a name
\* that already ends in _2
UniqNames == { <<>>, <<"beizhu">>, <<"beizhu", "_", "2">>, <<"xuhao">> }

UniqInit ==
    /\ uniq_in = Table(<<>>, <<<<>>>>)
    /\ uniq_out = EmptyTable
    /\ uniq_pc = "build"

\* the table gets one more column, its one row one more cell
AddColumn ==
    /\ uniq_pc = "build"
    /\ Len(uniq_in.cols) < MaxCols
    /\ \E n \in UniqNames :
          uniq_in' = Table(Append(uniq_in.cols, n),
                           << Append(uniq_in.rows[1],
                                     <<"v">> \o IntToText(Len(uniq_in.cols))) >>)
    /\ UNCHANGED <<uniq_out, uniq_pc>>
    /\ UNCHANGED <<normVars, hdrVars, dateVars, ldVars, diffVars, dbVars>>

\* the call of _ensure_unique_columns
EnsureUnique ==
    /\ uniq_pc = "build"
    /\ uniq_out' = EnsureUniqueColumns(uniq_in)
    /\ uniq_pc' = "done"
    /\ UNCHANGED uniq_in
    /\ UNCHANGED <<normVars, hdrVars, dateVars, ldVars, diffVars, dbVars>>

-----------------------------------------------------------------------------
(* Loading: load_single_csv (295-322) and load_single_xlsx (325-384)       *)
(*   "shuoming" 说明, the name of a decorative sheet                       *)

\* a missing cell, as str() prints it
NaNCell == <<"n", "a", "n">>

\* one worksheet as pd.read_excel(header=None) returns it, or one CSV file:
\* row0 and row1 are the two header rows, data the rows below them, width
\* the number of columns of data; readable is FALSE when reading it raises
Sheet(name, row0, row1, width, data, readable) ==
    [name |-> name, row0 |-> row0, row1 |-> row1, width |-> width,
     data |-> data, readable |-> readable]

\* lines 316-320 and 355-359 with the padding of a narrow block left out
AlignData_NoPad(names, width, data) ==
    [r \in 1..Len(data) |->
        IF width > Len(names) THEN SubSeq(data[r], 1, Len(names)) ELSE data[r]]

\* lines 316-320 and 355-359: a block wider than the names is cut to
\* len(names) columns, a narrower one gets columns of "" up to len(names)
AlignData(names, width, data) ==
    [r \in 1..Len(data) |->
        IF width > Len(names) THEN SubSeq(data[r], 1, Len(names))
        ELSE data[r] \o Repeat(<<>>, Len(names) - width)]

\* lines 309-313: the names of a CSV, 验收 unified, cleaned
CsvNames(row0, row1) ==
    LET names == ParseHeaderFromRows(row0, row1)
    IN  [i \in 1..Len(names) |-> CleanName(RenameAcceptance(names[i]))]

\* lines 307-321: the table load_single_csv hands to _normalize_loaded_df
CsvBlock(f) ==
    LET names == CsvNames(f.row0, f.row1)
    IN  Table(names, AlignData(names, f.width, f.data))

\* lines 347-353 with the test of _is_progress_sheet left out
SheetKept_NoClassifier(sh) ==
    /\ sh.readable
    /\ sh.width > 0
    /\ Len(sh.data) + 2 >= 3

\* lines 343-353: the loop goes on with this sheet (no continue)
SheetKept(sh) ==
    /\ sh.readable
    /\ sh.width > 0
    /\ Len(sh.data) + 2 >= 3
    /\ IsProgressSheet(ParseHeaderFromRows(sh.row0, sh.row1))

\* lines 351-360: the table the loop hands to _normalize_loaded_df
SheetBlock(sh) ==
    LET names == ParseHeaderFromRows(sh.row0, sh.row1)
    IN  Table(names, AlignData(names, sh.width, sh.data))

\* lines 366-373: the fallback reads the first sheet and sets its names;
\* data.columns = names raises unless the block has len(names) columns
FallbackReads(sh) ==
    /\ sh.readable
    /\ Len(sh.data) + 2 >= 3
    /\ sh.width = Len(ParseHeaderFromRows(sh.row0, sh.row1))

\* lines 369-375
FallbackBlock(sh) == Table(ParseHeaderFromRows(sh.row0, sh.row1), sh.data)

\* the names of all frames in the order pd.concat meets them
RECURSIVE UnionCols(_, _, _)
UnionCols(frames, k, acc) ==
    IF k > Len(frames) THEN acc
    ELSE UnionCols(frames, k + 1,
                   acc \o SelectIdx(frames[k].cols,
                                    { i \in 1..Len(frames[k].cols) :
                                        ~HasCol(acc, frames[k].cols[i]) }, 1))

\* the rows of frame f laid out under the columns cols, NaN where f has no
\* such column
Reindex(f, cols) ==
    [r \in 1..Len(f.rows) |->
        [c \in 1..Len(cols) |->
            IF HasCol(f.cols, cols[c])
            THEN f.rows[r][ColIndex(f.cols, cols[c])]
            ELSE NaNCell]]

RECURSIVE ConcatRows(_, _, _)
ConcatRows(frames, k, cols) ==
    IF k > Len(frames) THEN <<>>
    ELSE Reindex(frames[k], cols) \o ConcatRows(frames, k + 1, cols)

\* pd.concat raises InvalidIndexError when a frame has a repeated column
\* name, unless all frames have the very same columns
ConcatRaises(frames) ==
    /\ \E k \in 1..Len(frames) : ~IsUnique(frames[k].cols)
    /\ \E k \in 1..Len(frames) : frames[k].cols # frames[1].cols

\* pd.concat with a column renamed when an earlier frame has its name
RECURSIVE SuffixingLoop(_)
SuffixingLoop(frames) ==
    IF Len(frames) <= 1 THEN frames[1]
    ELSE LET a == SuffixingLoop(SubSeq(frames, 1, Len(frames) - 1))
             b == frames[Len(frames)]
             bcols == [i \in 1..Len(b.cols) |->
                          IF HasCol(a.cols, b.cols[i])
                          THEN b.cols[i] \o <<"_", "2">> ELSE b.cols[i]]
             cols == a.cols \o bcols
         IN  Table(cols, Reindex(a, cols) \o Reindex(Table(bcols, b.rows), cols))

Concat_Suffixing(frames) == SuffixingLoop(frames)

\* pd.concat laying the last frame's rows first
Concat_LastFirst(frames) ==
    LET cols == UnionCols(frames, 1, <<>>)
    IN  Table(cols,
              ConcatRows([k \in 1..Len(frames) |-> frames[Len(frames) + 1 - k]],
                         1, cols))

\* pd.concat(frames, ignore_index=True), line 384: the union of the columns,
\* the rows of each frame in turn
Concat(frames) ==
    IF \A k \in 1..Len(frames) : frames[k].cols = frames[1].cols
    THEN Table(frames[1].cols,
               ConcatRows([k \in 1..Len(frames) |->
                              Table([c \in 1..Len(frames[k].cols) |-> IntToText(c)],
                                    frames[k].rows)],
                          1, [c \in 1..Len(frames[1].cols) |-> IntToText(c)]))
    ELSE LET cols == UnionCols(frames, 1, <<>>)
         IN  Table(cols, ConcatRows(frames, 1, cols))

\* a data row of a sheet tagged g: the sequence cell s, a project name and a
\* remark that hold the tag, then cells that hold their column number
DataRow(s, g, width) ==
    [i \in 1..width |->
        IF i = 1 THEN s
        ELSE IF i = 2 THEN <<"p", g>>
        ELSE IF i = 3 THEN <<"r", g>>
        ELSE <<"c">> \o IntToText(i)]

NarrowHeader == << <<"xuhao">>, <<"mingcheng">>, <<"beizhu">> >>

\* sheet A: 序号, 项目名称, 备注; nine valid rows and a 合计 row
SheetA ==
    Sheet(<<"yanyuan">>, NarrowHeader, Repeat(NaNCell, 3), 3,
          [r \in 1..10 |->
              DataRow(IF r <= 9 THEN IntToText(r) ELSE <<"heji">>, "A", 3)],
          TRUE)

\* sheet B: the header of sheet A, two valid rows
SheetB ==
    Sheet(<<"shuyuan">>, NarrowHeader, Repeat(NaNCell, 3), 3,
          << DataRow(<<"1">>, "B", 3), DataRow(<<"2">>, "B", 3) >>, TRUE)

\* sheet C: a decorative sheet, a title and notes in 18 columns
SheetC ==
    Sheet(<<"shuoming">>, <<<<"biaoti">>>> \o Repeat(NaNCell, 17),
          Repeat(NaNCell, 18), 18,
          << DataRow(<<"2", "0", "2", "4">>, "C", 18), DataRow(<<"x">>, "C", 18) >>,
          TRUE)

\* sheet D: nine business columns, then the nine timeline columns
SheetD ==
    Sheet(<<"biao">>, SubSeq(BusinessRow, 1, 9) \o Repeat(NaNCell, 9),
          Repeat(NaNCell, 9) \o TimelineRow, 18,
          << DataRow(<<"1">>, "D", 18) >>, TRUE)

\* sheet E: ten business columns (the last is 备注), then the timeline
SheetE ==
    Sheet(<<"biao">>, BusinessRow \o Repeat(NaNCell, 9),
          Repeat(NaNCell, 10) \o TimelineRow, 19,
          << DataRow(<<"1">>, "E", 19) >>, TRUE)

\* sheet F: a progress header over rows that are all summary rows
SheetF ==
    Sheet(<<"biao">>, NarrowHeader, Repeat(NaNCell, 3), 3,
          << DataRow(<<"heji">>, "F", 3) >>, TRUE)

\* sheet G: a sheet pd.read_excel cannot read
SheetG == Sheet(<<"biao">>, <<>>, <<>>, 0, <<>>, FALSE)

\* sheet H: two header rows and no data row
SheetH == Sheet(<<"biao">>, NarrowHeader, Repeat(NaNCell, 3), 3, <<>>, TRUE)

SheetChoices == { SheetA, SheetB, SheetC, SheetD, SheetE, SheetF, SheetG, SheetH }

\* CSV files: line 1 of nine names, line 2 of eight commas and the
\* timeline names; the data lines have 18 fields, 19 (a trailing comma) or 17
CsvFile(width) ==
    Sheet(<<"yanyuan">>, SubSeq(BusinessRow, 1, 9),
          Repeat(<<>>, 8) \o TimelineRow, width,
          << DataRow(<<"1">>, "K", width), DataRow(<<"heji">>, "K", width) >>, TRUE)

CsvChoices == { CsvFile(17), CsvFile(18), CsvFile(19) }

StemChoices == { <<"biao">>, <<"shuyuan", "biao">> }

\* file P: nine business names and the timeline; two valid rows and a 合计
\* row; the stem names 燕园
FileP ==
    Sheet(<<"yanyuan", "biao">>, SubSeq(BusinessRow, 1, 9),
          Repeat(<<>>, 8) \o TimelineRow, 18,
          << DataRow(<<"1">>, "P", 18), DataRow(<<"2">>, "P", 18),
             DataRow(<<"heji">>, "P", 18) >>, TRUE)

\* file Q: 序号, 项目名称, 备注 and a second header line of two commas
FileQ ==
    Sheet(<<"shuyuan">>, NarrowHeader, Repeat(<<>>, 3), 3,
          << DataRow(<<"1">>, "Q", 3) >>, TRUE)

\* file R: the header of file P with 编号 for 序号; a valid and an invalid row
FileR ==
    Sheet(<<"biao">>, << <<"bianhao">> >> \o SubSeq(BusinessRow, 2, 9),
          Repeat(<<>>, 8) \o TimelineRow, 18,
          << DataRow(<<"1">>, "R", 18), DataRow(<<"x">>, "R", 18) >>, TRUE)

\* file U: bytes that no attempted encoding decodes
FileU == Sheet(<<"shuyuan", "biao">>, <<>>, <<>>, 0, <<>>, FALSE)

\* file H: the two header lines and nothing below them
FileH ==
    Sheet(<<"biao">>, SubSeq(BusinessRow, 1, 9), Repeat(<<>>, 8) \o TimelineRow,
          0, <<>>, TRUE)

\* the files dir_path.glob(pattern) may yield (none carries one of the two
\* names load_single_csv hands to _load_flat_progress_csv)
DirChoices == { FileP, FileQ, FileR, FileU, FileH }

\* file W: file P with a second data line of one more field than the first
FileW ==
    Sheet(<<"yanyuan", "biao">>, SubSeq(BusinessRow, 1, 9),
          Repeat(<<>>, 8) \o TimelineRow, 18,
          << DataRow(<<"1">>, "W", 18), DataRow(<<"2">>, "W", 19) >>, TRUE)

\* the files handed to load_single_csv alone: the well-formed ones, a
\* header-only one, a ragged one and an undecodable one
SingleCsvChoices == CsvChoices \cup { FileH, FileW, FileU }

\* the suffixes of the paths handed to the loaders
SuffixChoices == { "csv", "xlsx", "txt" }

\* load_uploaded, lines 389-393: the call is load_single_csv's
AsCsv == ld_kind = "csv" \/ (ld_kind = "uploaded" /\ ld_suffix = "csv")

\* load_uploaded, lines 389-395: the call is load_single_xlsx's
AsXlsx == ld_kind = "xlsx" \/ (ld_kind = "uploaded" /\ ld_suffix \in {"xlsx", "xls"})

\* load_single_csv raises: the bytes decode under no encoding (line 29), or
\* pd.read_csv finds no line below the header (EmptyDataError) or a line
\* with more fields than the first data line (ParserError), line 315
CsvRaises(f) ==
    \/ ~f.readable
    \/ Len(f.data) = 0
    \/ \E r \in 1..Len(f.data) : Len(f.data[r]) > f.width

LoadInit ==
    /\ ld_kind \in {"csv", "xlsx", "uploaded", "dir"}
    /\ ld_suffix \in IF ld_kind = "dir" THEN { "csv" } ELSE SuffixChoices
    /\ IF AsCsv THEN \E f \in SingleCsvChoices : ld_wb = <<f>>
                ELSE ld_wb = <<>>
    /\ ld_park \in IF ld_kind = "dir" THEN { <<>> } ELSE ParkArgs
    /\ ld_stem \in IF ld_kind = "dir" THEN { <<>> } ELSE StemChoices
    /\ ld_i = 0
    /\ ld_frames = <<>>
    /\ ld_calls = <<>>
    /\ ld_result = EmptyTable
    /\ ld_pc = "build"

\* the workbook on disk has one more worksheet
AddSheet ==
    /\ ld_pc = "build" /\ AsXlsx
    /\ Len(ld_wb) < MaxSheets
    /\ \E sh \in SheetChoices : ld_wb' = Append(ld_wb, sh)
    /\ UNCHANGED <<ld_kind, ld_suffix, ld_park, ld_stem, ld_i, ld_frames, ld_calls, ld_result, ld_pc>>
    /\ UNCHANGED <<normVars, hdrVars, dateVars, uniqVars, diffVars, dbVars>>

\* load_single_csv, lines 301-322: a suffix other than .csv raises
\* ValueError (line 303), as does a file no encoding decodes; pd.read_csv
\* and _normalize_loaded_df are called outside any try
LoadCsv ==
    /\ ld_pc = "build" /\ AsCsv
    /\ IF ld_suffix # "csv" \/ CsvRaises(ld_wb[1])
       THEN /\ ld_pc' = "raised"
            /\ UNCHANGED <<ld_calls, ld_result>>
       ELSE /\ ld_calls' = << [sheet |-> 1, block |-> CsvBlock(ld_wb[1])] >>
            /\ IF NormalizeRaises(CsvBlock(ld_wb[1]))
               THEN ld_pc' = "raised" /\ UNCHANGED ld_result
               ELSE /\ ld_result' = NormalizeLoadedDf(CsvBlock(ld_wb[1]), ld_park, ld_stem)
                    /\ ld_pc' = "done"
    /\ UNCHANGED <<ld_kind, ld_suffix, ld_wb, ld_park, ld_stem, ld_i, ld_frames>>
    /\ UNCHANGED <<normVars, hdrVars, dateVars, uniqVars, diffVars, dbVars>>

\* load_single_xlsx, lines 330-341: a suffix other than .xlsx and .xls
\* raises ValueError (line 332); else the workbook (one sheet at least) is
\* opened
OpenWorkbook ==
    /\ ld_pc = "build" /\ AsXlsx
    /\ Len(ld_wb) >= 1
    /\ ld_pc' = IF ld_suffix \in {"xlsx", "xls"} THEN "loop" ELSE "raised"
    /\ UNCHANGED <<ld_kind, ld_suffix, ld_wb, ld_park, ld_stem, ld_i, ld_frames, ld_calls, ld_result>>
    /\ UNCHANGED <<normVars, hdrVars, dateVars, uniqVars, diffVars, dbVars>>

\* load_single_xlsx, lines 342-363: one turn of the loop over the sheets
ProcessSheet ==
    /\ ld_pc = "loop"
    /\ ld_i < Len(ld_wb)
    /\ ld_i' = ld_i + 1
    /\ LET sh == ld_wb[ld_i + 1]
           df_sheet == NormalizeLoadedDf(SheetBlock(sh), ld_park, sh.name)
       IN  IF SheetKept(sh)
           THEN /\ ld_calls' = Append(ld_calls, [sheet |-> ld_i + 1, block |-> SheetBlock(sh)])
                /\ ld_frames' = IF IsEmpty(df_sheet) THEN ld_frames
                                ELSE Append(ld_frames, df_sheet)
           ELSE UNCHANGED <<ld_calls, ld_frames>>
    /\ UNCHANGED <<ld_kind, ld_suffix, ld_wb, ld_park, ld_stem, ld_result, ld_pc>>
    /\ UNCHANGED <<normVars, hdrVars, dateVars, uniqVars, diffVars, dbVars>>

\* load_single_xlsx, lines 364-381: no frame was kept; the first sheet is
\* tried as a single table, any exception gives the empty table
FinishFallback ==
    /\ ld_pc = "loop"
    /\ ld_i = Len(ld_wb)
    /\ ld_frames = <<>>
    /\ LET sh == ld_wb[1]
           df_one == NormalizeLoadedDf(FallbackBlock(sh), ld_park, ld_stem)
       IN  IF FallbackReads(sh)
           THEN /\ ld_calls' = Append(ld_calls, [sheet |-> 1, block |-> FallbackBlock(sh)])
                /\ ld_result' = IF IsEmpty(df_one) THEN EmptyTable ELSE df_one
           ELSE /\ ld_result' = EmptyTable
                /\ UNCHANGED ld_calls
    /\ ld_pc' = "done"
    /\ UNCHANGED <<ld_kind, ld_suffix, ld_wb, ld_park, ld_stem, ld_i, ld_frames>>
    /\ UNCHANGED <<normVars, hdrVars, dateVars, uniqVars, diffVars, dbVars>>

\* load_single_xlsx, lines 382-384: the frames are made unique and merged
FinishConcat ==
    /\ ld_pc = "loop"
    /\ ld_i = Len(ld_wb)
    /\ ld_frames # <<>>
    /\ LET frames == [k \in 1..Len(ld_frames) |-> EnsureUniqueColumns(ld_frames[k])]
       IN  /\ ld_frames' = frames
           /\ IF ConcatRaises(frames)
              THEN ld_pc' = "raised" /\ UNCHANGED ld_result
              ELSE ld_pc' = "done" /\ ld_result' = Concat(frames)
    /\ UNCHANGED <<ld_kind, ld_suffix, ld_wb, ld_park, ld_stem, ld_i, ld_calls>>
    /\ UNCHANGED <<normVars, hdrVars, dateVars, uniqVars, diffVars, dbVars>>

\* load_uploaded, line 396: a suffix that is neither .csv nor .xlsx/.xls
\* raises ValueError
RefuseUpload ==
    /\ ld_pc = "build" /\ ld_kind = "uploaded"
    /\ ~AsCsv /\ ~AsXlsx
    /\ ld_pc' = "raised"
    /\ UNCHANGED <<ld_kind, ld_suffix, ld_wb, ld_park, ld_stem, ld_i, ld_frames, ld_calls, ld_result>>
    /\ UNCHANGED <<normVars, hdrVars, dateVars, uniqVars, diffVars, dbVars>>

\* the directory holds one more CSV file
AddFile ==
    /\ ld_pc = "build" /\ ld_kind = "dir"
    /\ Len(ld_wb) < MaxFiles
    /\ \E f \in DirChoices : ld_wb' = Append(ld_wb, f)
    /\ UNCHANGED <<ld_kind, ld_suffix, ld_park, ld_stem, ld_i, ld_frames, ld_calls, ld_result, ld_pc>>
    /\ UNCHANGED <<normVars, hdrVars, dateVars, uniqVars, diffVars, dbVars>>

\* load_from_directory, lines 401-404: the directory is listed (a path that
\* is no directory returns the empty table, as a directory of no file does)
OpenDirectory ==
    /\ ld_pc = "build" /\ ld_kind = "dir"
    /\ ld_pc' = "scan"
    /\ UNCHANGED <<ld_kind, ld_suffix, ld_wb, ld_park, ld_stem, ld_i, ld_frames, ld_calls, ld_result>>
    /\ UNCHANGED <<normVars, hdrVars, dateVars, uniqVars, diffVars, dbVars>>

\* load_from_directory, lines 405-410: one turn of the loop over the files;
\* a file load_single_csv raises on is passed over
LoadDirFile ==
    /\ ld_pc = "scan"
    /\ ld_i < Len(ld_wb)
    /\ ld_i' = ld_i + 1
    /\ LET f == ld_wb[ld_i + 1]
       IN  IF CsvRaises(f) \/ NormalizeRaises(CsvBlock(f))
           THEN UNCHANGED <<ld_calls, ld_frames>>
           ELSE /\ ld_calls' = Append(ld_calls, [sheet |-> ld_i + 1, block |-> CsvBlock(f)])
                /\ ld_frames' = Append(ld_frames,
                                       NormalizeLoadedDf(CsvBlock(f), <<>>, f.name))
    /\ UNCHANGED <<ld_kind, ld_suffix, ld_wb, ld_park, ld_stem, ld_result, ld_pc>>
    /\ UNCHANGED <<normVars, hdrVars, dateVars, uniqVars, diffVars, dbVars>>

\* load_from_directory, lines 411-413: the frames are merged as they are
FinishDir ==
    /\ ld_pc = "scan"
    /\ ld_i = Len(ld_wb)
    /\ IF ld_frames = <<>>
       THEN ld_pc' = "done" /\ ld_result' = EmptyTable
       ELSE IF ConcatRaises(ld_frames)
       THEN ld_pc' = "raised" /\ UNCHANGED ld_result
       ELSE ld_pc' = "done" /\ ld_result' = Concat(ld_frames)
    /\ UNCHANGED <<ld_kind, ld_suffix, ld_wb, ld_park, ld_stem, ld_i, ld_frames, ld_calls>>
    /\ UNCHANGED <<normVars, hdrVars, dateVars, uniqVars, diffVars, dbVars>>

-----------------------------------------------------------------------------
(* Location enrichment: main, src/app203.py 6297-6308, which calls         *)
(* _canonicalize_df (116-157), _ensure_project_columns (96-107) and        *)
(* _add_城市和区域列 (1819-1824)                                           *)

\* the columns at the positions in keep, order kept
SelectCols(df, keep) ==
    Table(SelectIdx(df.cols, keep, 1),
          [r \in 1..Len(df.rows) |-> SelectIdx(df.rows[r], keep, 1)])

\* df.drop(columns=[name])
DropCol(df, name) ==
    SelectCols(df, { c \in 1..Len(df.cols) : df.cols[c] # name })

\* df[name], one cell per row
Column(df, name) ==
    [r \in 1..Len(df.rows) |-> df.rows[r][ColIndex(df.cols, name)]]

\* a.fillna(b)
Fillna(a, b) == [r \in 1..Len(a) |-> IF a[r] = <<"n", "a", "n">> THEN b[r] ELSE a[r]]

\* df[name] = values: the column is overwritten when the table has it and
\* appended when it has not
AssignCol(df, name, values) ==
    IF HasCol(df.cols, name)
    THEN Table(df.cols,
               [r \in 1..Len(df.rows) |->
                   [c \in 1..Len(df.cols) |->
                       IF df.cols[c] = name THEN values[r] ELSE df.rows[r][c]]])
    ELSE Table(Append(df.cols, name),
               [r \in 1..Len(df.rows) |-> Append(df.rows[r], values[r])])

\* base_order of _canonicalize_df (lines 145-149)
BaseOrder ==
    << <<"xuhao">>, <<"yuanqu">>, <<"quyu">>, <<"chengshi">>, <<"yetai">>,
       <<"fenji">>, <<"fenlei">>, <<"chengjianzu", "zhi">>, <<"guanzhu">>,
       <<"zhuanye">>, <<"fenbao">>, <<"mingcheng">>, <<"beizhu", "shuoming">>,
       <<"jine">> >>

\* lines 150-156: the wanted columns the table has, in the wanted order,
\* then the table's other columns
Reorder(df) ==
    LET want == BaseOrder \o TIMELINE_COLS \o << <<"pingzheng">> >>
        ordered == SelectIdx(want, { i \in 1..Len(want) : HasCol(df.cols, want[i]) }, 1)
        rest == SelectIdx(df.cols,
                          { c \in 1..Len(df.cols) :
                              \A i \in 1..Len(want) : want[i] # df.cols[c] }, 1)
        cols == ordered \o rest
    IN  Table(cols,
              [r \in 1..Len(df.rows) |->
                  [c \in 1..Len(cols) |-> df.rows[r][ColIndex(df.cols, cols[c])]]])

\* F applied to the value of v, which is worked out once
Bind(v, F(_)) == CHOOSE r \in { F(x) : x \in {v} } : TRUE

\* _strip_empty_columns, lines 109-113
StripEmptyColumns(df) ==
    SelectCols(df, { c \in 1..Len(df.cols) : Strip(df.cols[c]) # <<>> })

\* _canonicalize_df, lines 123-127: 社区 becomes 园区, or fills its gaps
CanonCommunity(df) ==
    IF HasCol(df.cols, <<"shequ">>) /\ ~HasCol(df.cols, <<"yuanqu">>)
    THEN RenameCol(df, <<"shequ">>, <<"yuanqu">>)
    ELSE IF HasCol(df.cols, <<"shequ">>)
    THEN DropCol(AssignCol(df, <<"yuanqu">>,
                           Fillna(Column(df, <<"yuanqu">>), Column(df, <<"shequ">>))),
                 <<"shequ">>)
    ELSE df

\* _canonicalize_df, lines 128-133: 所在城市 becomes 城市, or fills its gaps
CanonCity(df) ==
    IF HasCol(df.cols, <<"suozai">>)
    THEN DropCol(AssignCol(df, <<"chengshi">>,
                           IF HasCol(df.cols, <<"chengshi">>)
                           THEN Fillna(Column(df, <<"chengshi">>), Column(df, <<"suozai">>))
                           ELSE Column(df, <<"suozai">>)),
                 <<"suozai">>)
    ELSE df

\* _canonicalize_df, lines 134-139: 专业细分 becomes 专业分包, or fills its gaps
CanonSubtype(df) ==
    IF HasCol(df.cols, <<"xifen">>)
    THEN DropCol(AssignCol(df, <<"fenbao">>,
                           IF HasCol(df.cols, <<"fenbao">>)
                           THEN Fillna(Column(df, <<"fenbao">>), Column(df, <<"xifen">>))
                           ELSE Column(df, <<"xifen">>)),
                 <<"xifen">>)
    ELSE df

\* _canonicalize_df, lines 140-141: pd.to_numeric(拟定金额).fillna(0)
CanonAmount(df) ==
    IF HasCol(df.cols, <<"jine">>)
    THEN AssignCol(df, <<"jine">>,
                   [r \in 1..Len(df.rows) |->
                       LET c == df.rows[r][ColIndex(df.cols, <<"jine">>)]
                       IN  IF ToNumericOk(c) THEN Strip(c) ELSE <<"0">>])
    ELSE df

\* _canonicalize_df, lines 142-143: pd.to_numeric(序号)
CanonSeq(df) ==
    IF HasCol(df.cols, <<"xuhao">>)
    THEN AssignCol(df, <<"xuhao">>,
                   [r \in 1..Len(df.rows) |->
                       LET c == df.rows[r][ColIndex(df.cols, <<"xuhao">>)]
                       IN  IF ToNumericOk(c) THEN Strip(c) ELSE <<"n", "a", "n">>])
    ELSE df

\* _canonicalize_df, lines 116-157
CanonicalizeValue(df) ==
    IF IsEmpty(df) THEN df
    ELSE Bind(Bind(Bind(Bind(Bind(Bind(StripEmptyColumns(df), CanonCommunity),
                                  CanonCity), CanonSubtype), CanonAmount), CanonSeq),
              Reorder)

Canonicalize(df) == Bind(df, CanonicalizeValue)

\* needed of _ensure_project_columns (lines 98-102)
NeededColumns == BaseOrder \o << <<"pingzheng">> >>

\* _ensure_project_columns, lines 104-106: one turn of the loop; a needed
\* column the table lacks is added, holding "" (0 for 序号 and 拟定金额)
EnsureColumn(df, col) ==
    IF HasCol(df.cols, col) THEN df
    ELSE AddConstCol(df, col,
                     IF col \in { <<"xuhao">>, <<"jine">> } THEN <<"0">> ELSE <<>>)

RECURSIVE EnsureFrom(_, _)
EnsureFrom(df, i) ==
    IF i > Len(NeededColumns) THEN df
    ELSE Bind(EnsureColumn(df, NeededColumns[i]), LAMBDA d : EnsureFrom(d, i + 1))

\* _ensure_project_columns, lines 96-107
EnsureProjectColumns(df) == Bind(df, LAMBDA d : EnsureFrom(d, 1))

\* 园区_TO_城市 and 园区_TO_区域, the lookup tables of location_config (read
\* by name; a park they do not list maps to NaN): two of their entries
ParkToCity(park) ==
    IF park = <<"yanyuan">> THEN <<"beijing">>
    ELSE IF park = <<"shuyuan">> THEN <<"chengdu">>
    ELSE <<"n", "a", "n">>

ParkToRegion(park) ==
    IF park = <<"yanyuan">> THEN <<"huabei">>
    ELSE IF park = <<"shuyuan">> THEN <<"xinan">>
    ELSE <<"n", "a", "n">>

\* the reserved city and region of a park the lookup does not resolve
OtherPlace == <<"qita">>

\* _add_城市和区域列, lines 1822-1823: both columns are assigned from the
\* park of each row
AssignCityRegion(df) ==
    LET park == Column(df, <<"yuanqu">>)
        city == Fillna([r \in 1..Len(df.rows) |-> ParkToCity(park[r])],
                       [r \in 1..Len(df.rows) |-> OtherPlace])
        region == Fillna([r \in 1..Len(df.rows) |-> ParkToRegion(park[r])],
                         [r \in 1..Len(df.rows) |-> OtherPlace])
    IN  Bind(AssignCol(df, <<"chengshi">>, city),
             LAMBDA d : AssignCol(d, <<"quyu">>, region))

\* _add_城市和区域列, lines 1819-1824
AddCityRegion(df) == Bind(df, AssignCityRegion)

\* headers of the tables main receives: a park column, park with city and
\* region (the layout of 改良改造报表-V4.csv), no location column, a city
\* column alone, a 所在城市 column
LocHeaderChoices ==
    { << <<"xuhao">>, <<"yuanqu">>, <<"mingcheng">> >>,
      << <<"xuhao">>, <<"yuanqu">>, <<"chengshi">>, <<"quyu">> >>,
      << <<"xuhao">>, <<"mingcheng">> >>,
      << <<"xuhao">>, <<"mingcheng">>, <<"chengshi">> >>,
      << <<"xuhao">>, <<"yuanqu">>, <<"suozai">> >> }

ParkCells == { <<"yanyuan">>, <<"heyuan">>, <<"n", "a", "n">> }

CityCells == { <<"shanghai">>, <<"n", "a", "n">> }

RegionCells == { <<"huadong">>, <<"n", "a", "n">> }

NameCells == { <<"p">>, <<"shuyuan", "p">> }

\* a data row under the names cols: its number, then the chosen cells
LocRow(cols, n, pk, ct, rg, nm) ==
    [c \in 1..Len(cols) |->
        IF cols[c] = <<"xuhao">> THEN IntToText(n)
        ELSE IF cols[c] = <<"yuanqu">> THEN pk
        ELSE IF cols[c] = <<"quyu">> THEN rg
        ELSE IF cols[c] = <<"mingcheng">> THEN nm
        ELSE ct]

LocInit ==
    /\ \E h \in LocHeaderChoices : df_in = Table(h, <<>>)
    /\ park_arg \in ParkArgs
    /\ from_arg \in FromArgs
    /\ df_out = EmptyTable
    /\ norm_pc = "build"
    /\ df_loc = EmptyTable

\* the source table gets one more data row
AddLocRow ==
    /\ norm_pc = "build"
    /\ Len(df_in.rows) < MaxLocRows
    /\ \E pk \in ParkCells, ct \in CityCells, rg \in RegionCells, nm \in NameCells :
          df_in' = Table(df_in.cols,
                         Append(df_in.rows,
                                LocRow(df_in.cols, Len(df_in.rows) + 1, pk, ct, rg, nm)))
    /\ UNCHANGED <<park_arg, from_arg, df_out, norm_pc, df_loc>>
    /\ UNCHANGED <<hdrVars, dateVars, uniqVars, ldVars, diffVars, dbVars>>

\* main, lines 6291-6308, on the table a loader returned (an empty table
\* makes main return at line 6294)
Enrich ==
    /\ norm_pc = "done"
    /\ ~IsEmpty(df_out)
    /\ df_loc' = AddCityRegion(EnsureProjectColumns(Canonicalize(df_out)))
    /\ norm_pc' = "enriched"
    /\ UNCHANGED <<df_in, park_arg, from_arg, df_out>>
    /\ UNCHANGED <<hdrVars, dateVars, uniqVars, ldVars, diffVars, dbVars>>

-----------------------------------------------------------------------------
(* _compute_df_diff, src/app203.py lines 239-283, on tables of the columns *)
(* 序号 and 项目名称                                                       *)

DiffCols == << <<"xuhao">>, <<"mingcheng">> >>

\* 序号 cells of a stored or edited table: whole numbers, a number written
\* as a float, a fraction (which _normalize_loaded_df lets through), a
\* missing cell, a text
KeyCells ==
    { <<"1">>, <<"2">>, <<"1", ".", "0">>, <<"1", ".", "5">>, <<"n", "a", "n">>, <<"x">> }

ValCells == { <<"a">>, <<"b">> }

\* the digits d without their trailing zeros
RECURSIVE DropTrailingZeros(_)
DropTrailingZeros(d) ==
    IF d # <<>> /\ d[Len(d)] = "0" THEN DropTrailingZeros(SubSeq(d, 1, Len(d) - 1)) ELSE d

\* line 253: the cell as float64 (of an unsigned number): whole part and
\* the digits of the fraction
KeyFloat(c) ==
    LET b == Unsigned(Strip(c))
    IN  [whole |-> DigitsToNat(IntPart(b)), frac |-> DropTrailingZeros(FracPart(b))]

\* .astype(int) of the float: the fraction is cut
KeyInt(c) == KeyFloat(c).whole

\* line 251: dropna(subset=[key_col])
DropNaKey(rows) ==
    SelectIdx(rows, { r \in 1..Len(rows) : rows[r][1] # <<"n", "a", "n">> }, 1)

\* lines 253-256: astype float64 raises on a cell that is no number
AsFloatRaises(rows) == \E r \in 1..Len(rows) : ~ToNumericOk(rows[r][1])

\* lines 257-258: set(df[key_col].astype(int).tolist())
DiffIds(rows) == { KeyInt(rows[r][1]) : r \in 1..Len(rows) }

\* df[df[key_col].astype(int) == sid].iloc[0], as _row_to_dict prints it
DiffFirstRow(rows, sid) ==
    LET r == CHOOSE i \in 1..Len(rows) :
                 /\ KeyInt(rows[i][1]) = sid
                 /\ \A j \in 1..(i - 1) : KeyInt(rows[j][1]) # sid
    IN  [key |-> KeyFloat(rows[r][1]), val |-> rows[r][2]]

\* _format_cell, lines 232-236, on a cell of the column 项目名称
FormatCell(v) == IF v = <<"n", "a", "n">> THEN <<>> ELSE Strip(v)

\* lines 273-280: the columns whose formatted cells differ
DiffChanges(o, n) ==
    (IF o.key # n.key THEN { <<"xuhao">> } ELSE {})
    \cup (IF FormatCell(o.val) # FormatCell(n.val) THEN { <<"mingcheng">> } ELSE {})

EmptyDiff == [deleted |-> {}, added |-> {}, modified |-> {}, modified_details |-> {}]

\* lines 257-282: the lists of the dictionary, as sets (the source walks
\* Python sets, whose order is not fixed)
DiffResult(o, n) ==
    LET old_ids == DiffIds(o)
        new_ids == DiffIds(n)
        changed == { sid \in old_ids \cap new_ids : DiffFirstRow(o, sid) # DiffFirstRow(n, sid) }
    IN  [deleted |-> { DiffFirstRow(o, sid) : sid \in old_ids \ new_ids },
         added |-> { DiffFirstRow(n, sid) : sid \in new_ids \ old_ids },
         modified |-> { DiffFirstRow(n, sid) : sid \in changed },
         modified_details |->
             { [seq |-> sid,
                changes |-> DiffChanges(DiffFirstRow(o, sid), DiffFirstRow(n, sid))] :
               sid \in changed }]

\* lines 239-283
ComputeDfDiff(old_df, new_df) ==
    IF IsEmpty(old_df) /\ IsEmpty(new_df) THEN EmptyDiff
    ELSE IF ~HasCol(old_df.cols, <<"xuhao">>) \/ ~HasCol(new_df.cols, <<"xuhao">>)
    THEN EmptyDiff
    ELSE IF AsFloatRaises(DropNaKey(old_df.rows)) \/ AsFloatRaises(DropNaKey(new_df.rows))
    THEN EmptyDiff
    ELSE Bind(DropNaKey(old_df.rows),
              LAMBDA o : Bind(DropNaKey(new_df.rows), LAMBDA n : DiffResult(o, n)))

\* old_df is load_from_db(): the stored table, or pd.DataFrame() when there
\* is no database yet
DiffInit ==
    /\ diff_old \in { Table(DiffCols, <<>>), EmptyTable }
    /\ diff_new = Table(DiffCols, <<>>)
    /\ diff_out = EmptyDiff
    /\ diff_pc = "build"

\* the stored table has one more row
AddOldRow ==
    /\ diff_pc = "build"
    /\ diff_old.cols # <<>>
    /\ Len(diff_old.rows) < MaxDiffRows
    /\ \E k \in KeyCells, v \in ValCells :
          diff_old' = Table(diff_old.cols, Append(diff_old.rows, <<k, v>>))
    /\ UNCHANGED <<diff_new, diff_out, diff_pc>>
    /\ UNCHANGED <<normVars, hdrVars, dateVars, uniqVars, ldVars, dbVars>>

\* the edited table has one more row
AddNewRow ==
    /\ diff_pc = "build"
    /\ Len(diff_new.rows) < MaxDiffRows
    /\ \E k \in KeyCells, v \in ValCells :
          diff_new' = Table(diff_new.cols, Append(diff_new.rows, <<k, v>>))
    /\ UNCHANGED <<diff_old, diff_out, diff_pc>>
    /\ UNCHANGED <<normVars, hdrVars, dateVars, uniqVars, ldVars, dbVars>>

\* the call of _compute_df_diff (main, line 6338)
ComputeDiff ==
    /\ diff_pc = "build"
    /\ diff_out' = ComputeDfDiff(diff_old, diff_new)
    /\ diff_pc' = "done"
    /\ UNCHANGED <<diff_old, diff_new>>
    /\ UNCHANGED <<normVars, hdrVars, dateVars, uniqVars, ldVars, dbVars>>

-----------------------------------------------------------------------------
(* The shared table and the project wizard, src/app203.py lines 77-93,     *)
(* 160-169 and 5878-6145. A stored record is its 序号 (a whole number), its *)
(* 园区, its 项目名称 and its 上传凭证 (0 for a record that was imported,   *)
(* the session for a record the wizard added).                             *)

\* the browser sessions that run the script against the one SQLite file
Sessions == {1, 2}

DbParks == {"yanyuan", "shuyuan"}

DbNames == {"a", "b"}

\* the records an import stores: each sheet numbers its rows from 1
ImportedRows ==
    [seq : {1, 2}, park : DbParks, name : {"a"}, token : {0}]

\* the tables of at most n imported records
RECURSIVE TablesUpTo(_)
TablesUpTo(n) ==
    IF n = 0 THEN { <<>> }
    ELSE LET t == TablesUpTo(n - 1)
         IN  t \cup { Append(x, r) : x \in { y \in t : Len(y) = n - 1 }, r \in ImportedRows }

NoOp == [kind |-> "none", park |-> "none", seq |-> 0, before |-> <<>>, after |-> <<>>]

\* load_from_db, lines 77-85: pd.DataFrame() without a file
LoadFromDb(stored) == stored

\* save_to_db, lines 88-93: an empty table is not written
SaveToDb(stored, df) == IF df = <<>> THEN stored ELSE df

\* the largest 序号 of a table with a row
RECURSIVE MaxSeq(_)
MaxSeq(df) ==
    IF Len(df) = 1 THEN df[1].seq
    ELSE Max(df[1].seq, MaxSeq(Tail(df)))

\* _get_next_序号, lines 160-169
GetNextSeq(df) == IF df = <<>> THEN 1 ELSE MaxSeq(df) + 1

\* line 5908: df_all[df_all["园区"].astype(str) == 园区选择]
Candidates(df_all, park) ==
    SelectIdx(df_all, { r \in 1..Len(df_all) : df_all[r].park = park }, 1)

\* line 5929: the numbers offered for the park
SeqChoices(df_all, park) ==
    { Candidates(df_all, park)[r].seq : r \in 1..Len(Candidates(df_all, park)) }

\* line 5931: df_all[df_all["序号"].astype(int) == int(chosen_seq)].iloc[0]
TargetRow(df_all, chosen_seq) ==
    df_all[CHOOSE i \in 1..Len(df_all) :
               /\ df_all[i].seq = chosen_seq
               /\ \A j \in 1..(i - 1) : df_all[j].seq # chosen_seq]

\* line 5997: df_all[df_all["序号"].astype(int) != seq_val]
DeleteRows(df_all, park, seq_val) ==
    SelectIdx(df_all, { r \in 1..Len(df_all) : df_all[r].seq # seq_val }, 1)

\* lines 6007-6029: every row of the mask gets the values of the form; the
\* form's 园区 is the target row's unless the user picks another
ModifyRows(df_all, seq_val, park, name) ==
    [r \in 1..Len(df_all) |->
        IF df_all[r].seq = seq_val
        THEN [df_all[r] EXCEPT !.park = park, !.name = name]
        ELSE df_all[r]]

DbIdle ==
    /\ db = <<>>
    /\ db0 = <<>>
    /\ ses_df = [s \in Sessions |-> <<>>]
    /\ ses_pc = [s \in Sessions |-> "off"]
    /\ ses_op = [s \in Sessions |-> NoOp]

DbInit ==
    /\ db \in TablesUpTo(MaxDbRows)
    /\ db0 = db
    /\ ses_df = [s \in Sessions |-> <<>>]
    /\ ses_pc = [s \in Sessions |-> "idle"]
    /\ ses_op = [s \in Sessions |-> NoOp]

\* main, line 6160, and _render_project_wizard, line 5878: the script run
\* of a session reads the stored table
WizardLoad(s) ==
    /\ ses_pc[s] = "idle"
    /\ ses_df' = [ses_df EXCEPT ![s] = LoadFromDb(db)]
    /\ ses_pc' = [ses_pc EXCEPT ![s] = "loaded"]
    /\ UNCHANGED <<db, db0, ses_op>>
    /\ UNCHANGED <<normVars, hdrVars, dateVars, uniqVars, ldVars, diffVars>>

\* lines 5904-5931 and 5995-6004: a park and one of its numbers are
\* selected and the project is deleted; st.success reports it
WizardDelete(s) ==
    /\ ses_pc[s] = "loaded"
    /\ \E park \in DbParks :
         \E chosen_seq \in SeqChoices(ses_df[s], park) :
            LET seq_val == TargetRow(ses_df[s], chosen_seq).seq
                df_new == DeleteRows(ses_df[s], park, seq_val)
            IN  /\ db' = SaveToDb(db, df_new)
                /\ ses_op' = [ses_op EXCEPT ![s] =
                                 [kind |-> "delete", park |-> park, seq |-> seq_val,
                                  before |-> db, after |-> SaveToDb(db, df_new)]]
    /\ ses_pc' = [ses_pc EXCEPT ![s] = "done"]
    /\ UNCHANGED <<db0, ses_df>>
    /\ UNCHANGED <<normVars, hdrVars, dateVars, uniqVars, ldVars, diffVars>>

\* lines 5904-5931 and 6006-6052: a park and one of its numbers are
\* selected, the form is filled from the target row, the name is edited
\* and the form is saved
WizardModify(s) ==
    /\ ses_pc[s] = "loaded"
    /\ \E park \in DbParks, name \in DbNames :
         \E chosen_seq \in SeqChoices(ses_df[s], park) :
            LET target_row == TargetRow(ses_df[s], chosen_seq)
                df_new == ModifyRows(ses_df[s], target_row.seq, target_row.park, name)
            IN  /\ db' = SaveToDb(db, df_new)
                /\ ses_op' = [ses_op EXCEPT ![s] =
                                 [kind |-> "modify", park |-> park, seq |-> target_row.seq,
                                  before |-> db, after |-> SaveToDb(db, df_new)]]
    /\ ses_pc' = [ses_pc EXCEPT ![s] = "done"]
    /\ UNCHANGED <<db0, ses_df>>
    /\ UNCHANGED <<normVars, hdrVars, dateVars, uniqVars, ldVars, diffVars>>

\* lines 6055-6145: the form of a new project is submitted; the record
\* gets the next number and a fresh 上传凭证
WizardAdd(s) ==
    /\ ses_pc[s] = "loaded"
    /\ \E park \in DbParks, name \in DbNames :
            LET next_seq == GetNextSeq(ses_df[s])
                df_all2 == Append(ses_df[s],
                                  [seq |-> next_seq, park |-> park, name |-> name, token |-> s])
            IN  /\ db' = SaveToDb(db, df_all2)
                /\ ses_op' = [ses_op EXCEPT ![s] =
                                 [kind |-> "add", park |-> park, seq |-> next_seq,
                                  before |-> db, after |-> SaveToDb(db, df_all2)]]
    /\ ses_pc' = [ses_pc EXCEPT ![s] = "done"]
    /\ UNCHANGED <<db0, ses_df>>
    /\ UNCHANGED <<normVars, hdrVars, dateVars, uniqVars, ldVars, diffVars>>

-----------------------------------------------------------------------------
(* Specifications.  Each component is checked on its own: the variables of *)
(* the components that are not running keep their idle values.             *)

NormIdle ==
    /\ df_in = EmptyTable
    /\ park_arg = <<>>
    /\ from_arg = <<>>
    /\ df_out = EmptyTable
    /\ norm_pc = "idle"
    /\ df_loc = EmptyTable

HdrIdle ==
    /\ hdr_row0 = <<>>
    /\ hdr_row1 = <<>>
    /\ hdr_names = <<>>
    /\ hdr_sheet = FALSE
    /\ hdr_pc = "idle"

DateIdle ==
    /\ date_kind = "none"
    /\ date_cells = <<>>
    /\ date_result = <<>>
    /\ date_pc = "idle"
    /\ date_again = <<>>
    /\ date_cols = <<>>
    /\ date_flags = <<>>

UniqIdle ==
    /\ uniq_in = EmptyTable
    /\ uniq_out = EmptyTable
    /\ uniq_pc = "idle"

DiffIdle ==
    /\ diff_old = EmptyTable
    /\ diff_new = EmptyTable
    /\ diff_out = [deleted |-> {}, added |-> {}, modified |-> {}, modified_details |-> {}]
    /\ diff_pc = "idle"

LoadIdle ==
    /\ ld_kind = "none"
    /\ ld_suffix = "none"
    /\ ld_wb = <<>>
    /\ ld_park = <<>>
    /\ ld_stem = <<>>
    /\ ld_i = 0
    /\ ld_frames = <<>>
    /\ ld_calls = <<>>
    /\ ld_result = EmptyTable
    /\ ld_pc = "idle"

\* row sanitisation
Init == NormInit /\ HdrIdle /\ DateIdle /\ UniqIdle /\ LoadIdle /\ DiffIdle /\ DbIdle

Next == AddRow \/ Normalize

Spec == Init /\ [][Next]_vars

\* row sanitisation followed by location enrichment
LocSpecInit == LocInit /\ HdrIdle /\ DateIdle /\ UniqIdle /\ LoadIdle /\ DiffIdle /\ DbIdle

LocNext == AddLocRow \/ Normalize \/ Enrich

SpecLocate == LocSpecInit /\ [][LocNext]_vars

\* the diff of the stored and the edited table
DiffSpecInit == DiffInit /\ NormIdle /\ HdrIdle /\ DateIdle /\ UniqIdle /\ LoadIdle /\ DbIdle

DiffNext == AddOldRow \/ AddNewRow \/ ComputeDiff

SpecDiff == DiffSpecInit /\ [][DiffNext]_vars

\* the sessions of the wizard on the shared table
StoreSpecInit ==
    DbInit /\ NormIdle /\ HdrIdle /\ DateIdle /\ UniqIdle /\ LoadIdle /\ DiffIdle

StoreNext ==
    \E s \in Sessions : WizardLoad(s) \/ WizardDelete(s) \/ WizardModify(s) \/ WizardAdd(s)

SpecStore == StoreSpecInit /\ [][StoreNext]_vars

\* header resolution and sheet classification
HeaderInit == HdrInit /\ NormIdle /\ DateIdle /\ UniqIdle /\ LoadIdle /\ DiffIdle /\ DbIdle

HeaderNext == ParseHeader \/ Classify

SpecHeader == HeaderInit /\ [][HeaderNext]_vars

\* column-name uniqueness
UniqSpecInit == UniqInit /\ NormIdle /\ HdrIdle /\ DateIdle /\ LoadIdle /\ DiffIdle /\ DbIdle

UniqNext == AddColumn \/ EnsureUnique

SpecUnique == UniqSpecInit /\ [][UniqNext]_vars

\* loading of CSV files and workbooks
LoadSpecInit == LoadInit /\ NormIdle /\ HdrIdle /\ DateIdle /\ UniqIdle /\ DiffIdle /\ DbIdle

LoadNext ==
    \/ AddSheet \/ LoadCsv \/ OpenWorkbook \/ ProcessSheet \/ FinishFallback
    \/ FinishConcat
    \/ AddFile \/ OpenDirectory \/ LoadDirFile \/ FinishDir
    \/ RefuseUpload

SpecLoad == LoadSpecInit /\ [][LoadNext]_vars

\* date decoding
DateSpecInit == DateInit /\ NormIdle /\ HdrIdle /\ UniqIdle /\ LoadIdle /\ DiffIdle /\ DbIdle

DateNext == AddCell \/ ParseDates \/ StableMask \/ Redecode

SpecDate == DateSpecInit /\ [][DateNext]_vars

-----------------------------------------------------------------------------
(* Claims on row sanitisation *)

\* the sequence-number cells of the returned table
OutSeqCells ==
    LET k == SeqColIndex(df_out.cols)
    IN  IF k = 0 THEN {} ELSE { df_out.rows[r][k] : r \in 1..Len(df_out.rows) }

\* texts naming a summary row: 合计, 合计行, 小计, 差额, 预算系统合计
SummaryLabels ==
    { <<"heji">>, <<"heji", "hang">>, <<"xiaoji">>, <<"chae">>, <<"yusuan", "heji">> }

\* a text that reads as a number: an optional sign, digits, at most one point
ReadsAsNumber(c) ==
    LET t == Strip(c)
        b == IF t # <<>> /\ t[1] \in {"-", "+"} THEN Tail(t) ELSE t
    IN  /\ b # <<>>
        /\ \A i \in 1..Len(b) : b[i] \in Digits \cup {"."}
        /\ \E i \in 1..Len(b) : b[i] \in Digits
        /\ \A i, j \in 1..Len(b) : b[i] = "." /\ b[j] = "." => i = j

\* C1: no row returned by _normalize_loaded_df carries a non-numeric sequence
\* number or a summary-row label; a row whose sequence cell is 合计 is never
\* returned, whatever its other cells hold.
C1_NoSummaryOrNonNumericRow ==
    norm_pc = "done" =>
        \A c \in OutSeqCells : ReadsAsNumber(c) /\ Strip(c) \notin SummaryLabels

\* C1 witness: a table with a 合计 row whose other cells are well-formed, and
\* a valid row, was normalised and only the 合计 row was dropped.
C1_Witness ==
    /\ norm_pc = "done"
    /\ Len(df_in.rows) = 2
    /\ df_in.rows[1] = <<<<"1">>, <<"p">>, <<"7">>>>
    /\ df_in.rows[2] = <<<<"heji">>, <<"yanyuan", "p">>, <<"9", "9">>>>
    /\ Len(df_out.rows) = 1
    /\ OutSeqCells = {<<"1">>}

\* C2 as stated: every returned row's sequence number parses as a
\* non-negative integer (all-digit text once stripped).
C2_SeqIsNonNegativeInteger ==
    norm_pc = "done" => \A c \in OutSeqCells : AllDigits(Strip(c))

\* the rows handed in whose sequence cell reads as a number, in their order
NumberedRows ==
    SelectIdx(df_in.rows, { r \in 1..Len(df_in.rows) : ReadsAsNumber(df_in.rows[r][1]) }, 1)

C22_AcceptanceUnified ==
    norm_pc = "done" /\ ~IsEmpty(df_in) =>
        /\ \A c \in 1..Len(df_in.cols) :
              Strip(df_in.cols[c]) \in AcceptanceLabels => df_out.cols[c] = <<"yanshou">>
        /\ \A c \in 1..Len(df_out.cols) : Strip(df_out.cols[c]) \notin AcceptanceLabels

\* C22 witness: a table whose second column came as 验收(社区需求完成交付)
\* was normalised and a row returned under the name 验收.
C22_Witness ==
    /\ norm_pc = "done"
    /\ Len(df_out.rows) >= 1
    /\ Strip(df_in.cols[2]) = <<"yanshou", "(", "shequ", "jiaofu", ")">>
    /\ df_out.cols[2] = <<"yanshou">>

-----------------------------------------------------------------------------
(* Claims on header resolution and sheet classification *)

\* the names the resolver took from row 2: all after those taken from row 1
TimelineNames ==
    LET n0 == Len(hdr_row0)
        taken == IF n0 >= 8 THEN (IF n0 > 9 THEN 9 ELSE n0) ELSE n0
    IN  SubSeq(hdr_names, taken + 1, Len(hdr_names))

\* row 2's cells at 0-based positions off .. off+8, stripped
Row1Cells(off) == [i \in 1..9 |-> Strip(hdr_row1[off + i])]

\* C4: the timeline segment always contributes exactly 9 names; a row 2 of
\* exactly 17 cells is read from offset 8; a row 2 of fewer than 9 cells is
\* read from offset 0 and the shortfall is padded with empty names.
C4_OffsetProbe17AndShort ==
    hdr_pc \in {"parsed", "classified"} =>
        /\ Len(TimelineNames) = 9
        /\ Len(hdr_row1) = 17 => TimelineNames = Row1Cells(8)
        /\ Len(hdr_row1) < 9 =>
              \A i \in 1..9 :
                 TimelineNames[i] =
                    IF i <= Len(hdr_row1) THEN Strip(hdr_row1[i]) ELSE <<>>

\* C4 witness: a 17-cell row 2 whose timeline names begin at offset 8 was
\* resolved to the nine timeline names.
C4_Witness ==
    /\ hdr_pc = "parsed"
    /\ Len(hdr_row1) = 17
    /\ hdr_row1[9] = <<"lixiang">>
    /\ TimelineNames[1] = <<"lixiang">>
    /\ TimelineNames[9] = <<"jiesuan">>

\* C4 witness, short case: a 4-cell row 2 was resolved with 5 padded names
C4_WitnessShort ==
    /\ hdr_pc = "parsed"
    /\ Len(hdr_row1) = 4
    /\ hdr_row1[1] = <<"lixiang">>
    /\ TimelineNames[4] = <<"hesuan">>
    /\ TimelineNames[5] = <<>>

\* C5 as stated: a row 2 of exactly 18 cells is read from offset 9 (cells
\* 9..17).
C5_OffsetProbe18 ==
    hdr_pc \in {"parsed", "classified"} /\ Len(hdr_row1) = 18 =>
        TimelineNames = Row1Cells(9)

\* C25 as stated: the name of data column j comes from the header cell of
\* physical column j, of row 1 for the names taken from row 1 and of row 2
\* (empty where row 2 is shorter) for the timeline names after them.
C25_NameFromOwnColumn ==
    hdr_pc \in {"parsed", "classified"} =>
        LET taken == Len(hdr_names) - Len(TimelineNames)
        IN  \A j \in 1..Len(hdr_names) :
               hdr_names[j] =
                  IF j <= taken THEN CleanName(hdr_row0[j])
                  ELSE IF j <= Len(hdr_row1) THEN Strip(hdr_row1[j])
                  ELSE <<>>

\* C7: _is_progress_sheet answers true exactly when a column named 序号 or
\* 编号 is present and a column named 项目分级, 专业, 拟定金额 or 项目名称
\* is present.
C7_SheetClassification ==
    hdr_pc = "classified" =>
        (hdr_sheet <=>
            /\ \E i \in 1..Len(hdr_names) :
                  hdr_names[i] \in { <<"xuhao">>, <<"bianhao">> }
            /\ \E i \in 1..Len(hdr_names) :
                  hdr_names[i] \in
                     { <<"fenji">>, <<"zhuanye">>, <<"jine">>, <<"mingcheng">> })

\* C7 witness: a header with 编号 and 专业 (written with a byte-order mark
\* and blanks) was classified a progress sheet.
C7_Witness ==
    /\ hdr_pc = "classified"
    /\ hdr_row0 = << <<"BOM", "bianhao">>, <<" ", "zhuanye", " ">> >>
    /\ hdr_sheet

\* C7 witness, negative case: a title-only sheet was refused
C7_WitnessRefused ==
    /\ hdr_pc = "classified"
    /\ hdr_row0 = << <<"biaoti">> >>
    /\ ~hdr_sheet

-----------------------------------------------------------------------------
(* Claims on date decoding *)

\* C3 as stated: whichever branch decoded the cell, the decoder never
\* returns a date of the calendar year 1900 (such a date is made absent).
C3_NoYear1900Returned ==
    date_pc = "done" =>
        \A i \in 1..Len(date_result) : date_result[i].y # 1900

\* the whole number a text of digits writes, read digit by digit
RECURSIVE NumeralValue(_)
NumeralValue(t) ==
    IF t = <<>> THEN 0
    ELSE 10 * NumeralValue(SubSeq(t, 1, Len(t) - 1))
         + (CHOOSE v \in 0..9 : <<"0", "1", "2", "3", "4", "5", "6", "7", "8", "9">>[v + 1] = t[Len(t)])

\* C16: a whole-number cell n is decoded by the serial branch, as the day n
\* days after 1899-12-30 (absent when that day is in 1900), exactly when
\* 1 <= n <= 100000; 1 gives 1899-12-31, 45000 a day of 2023; 100001 and 0
\* are left to the string branch, which makes no date of them.
C16_SerialWindow ==
    date_pc = "done" /\ date_kind = "object" =>
        \A i \in 1..Len(date_cells) :
            LET t == date_cells[i].text
                n == NumeralValue(t)
            IN  AllDigits(t) =>
                  /\ (1 <= n /\ n <= 100000) =>
                        date_result[i] = Mask1900(DateOfSerial(n))
                  /\ ~(1 <= n /\ n <= 100000) => date_result[i] = NaT
                  /\ n = 1 => date_result[i] = Date(1899, 12, 31)
                  /\ n = 45000 => date_result[i].y = 2023
                  /\ n = 100000 => date_result[i].y = 2173

\* C16 witness: the serials 1 and 100001 were decoded: the first to
\* 1899-12-31, the second to no date.
C16_Witness ==
    /\ date_pc = "done"
    /\ date_kind = "object"
    /\ Len(date_cells) = 2
    /\ date_cells[1].text = <<"1">>
    /\ date_cells[2].text = <<"1", "0", "0", "0", "0", "1">>
    /\ date_result = << Date(1899, 12, 31), NaT >>

\* C17 as stated: decoding the decoder's own result gives that result again.
C17_DecodeIdempotent ==
    date_pc = "redone" => date_again = date_result

\* C14 as stated: a record is flagged stable exactly when the date decoder
\* resolves its 需求立项 cell to a date (not absent) of year 2000 or later,
\* whichever of the three encodings the cell uses.
C14_StableIffDecodedFrom2000 ==
    date_pc = "masked"
    /\ ~Contains(date_cols[1], "lixiang") /\ Contains(date_cols[2], "lixiang") =>
        \A i \in 1..Len(date_cells) :
            date_flags[i] <=> (date_result[i] # NaT /\ date_result[i].y >= 2000)

\* C15: on a table none of whose column names holds 需求立项 the flags are
\* as many as the records and all false.
C15_NoApprovalColumnAllFalse ==
    date_pc = "masked"
    /\ (\A c \in 1..Len(date_cols) : ~Contains(date_cols[c], "lixiang"))
    => /\ Len(date_flags) = Len(date_cells)
       /\ \A i \in 1..Len(date_flags) : date_flags[i] = FALSE

\* C15 witness: a table without the column, holding a 2024 date and a
\* blank, was flagged: two flags, both false.
C15_Witness ==
    /\ date_pc = "masked"
    /\ date_cols = << <<"xuhao">>, <<"shenhe">> >>
    /\ Len(date_cells) = 2
    /\ date_cells[1].text = <<"3", "/", "1", "5", "/", "2", "0", "2", "4">>
    /\ date_flags = <<FALSE, FALSE>>

\* C23: in an object series a cell the Excel-serial branch accepted holds
\* what that branch left in it, the absent value included when its day fell
\* in 1900; the string branch wrote the other cells and no more.
C23_SerialCellsNotReprocessed ==
    date_pc # "input" /\ date_kind = "object" =>
        \A i \in 1..Len(date_cells) :
            IF InSerialRange(date_cells[i].text)
            THEN date_result[i] = Mask1900(DateOfSerial(SerialOf(date_cells[i].text)))
            ELSE date_result[i] = StringBranch(date_cells[i].text)

\* C23 witness: the serial 366 (1900-12-31) was left absent beside a date
\* text the string branch resolved.
C23_Witness ==
    /\ date_pc = "done" /\ date_kind = "object"
    /\ Len(date_cells) = 2
    /\ date_cells[1].text = <<"3", "6", "6">>
    /\ date_cells[2].text = <<"3", "/", "1", "5", "/", "2", "0", "2", "4">>
    /\ date_result = << NaT, Date(2024, 3, 15) >>

-----------------------------------------------------------------------------
(* Claims on column-name uniqueness *)

\* C9 as stated: after _ensure_unique_columns every column name is non-empty
\* and the names are pairwise distinct.
C9_NamesNonEmptyAndDistinct ==
    uniq_pc = "done" =>
        /\ \A i \in 1..Len(uniq_out.cols) : uniq_out.cols[i] # <<>>
        /\ \A i, j \in 1..Len(uniq_out.cols) :
              uniq_out.cols[i] = uniq_out.cols[j] => i = j

\* C9, its uniqueness half alone: the names returned are pairwise distinct
\* (what the docstring of _ensure_unique_columns promises).
C9_NamesDistinct ==
    uniq_pc = "done" =>
        \A i, j \in 1..Len(uniq_out.cols) :
           uniq_out.cols[i] = uniq_out.cols[j] => i = j

-----------------------------------------------------------------------------
(* Claims on loading *)

\* the number of names the header resolver gives for sheet sh: those taken
\* from row 1 and nine timeline names
ResolvedCount(sh) ==
    LET n0 == Len(sh.row0)
    IN  (IF n0 >= 8 THEN (IF n0 > 9 THEN 9 ELSE n0) ELSE n0) + 9

\* C6 as stated: the names handed to row sanitisation are as many as the
\* data block has columns (the name list padded or cut to fit), and no data
\* column is lost.
C6_NamesFitDataBlock ==
    \A k \in 1..Len(ld_calls) :
        LET sh == ld_wb[ld_calls[k].sheet]
            b  == ld_calls[k].block
        IN  /\ Len(b.cols) = sh.width
            /\ \A r \in 1..Len(b.rows) : b.rows[r] = sh.data[r]

\* C6 amended: the table handed to row sanitisation has exactly as many
\* columns as the resolved name list, which is never padded or cut: a data
\* block with more columns loses the columns beyond it, one with fewer gets
\* columns of empty text; the fallback of load_single_xlsx returns the empty
\* table when the first sheet's block and its names differ in length.
C6_DataFitsNames ==
    /\ \A k \in 1..Len(ld_calls) :
          LET sh == ld_wb[ld_calls[k].sheet]
              b  == ld_calls[k].block
          IN  /\ Len(b.cols) = ResolvedCount(sh)
              /\ Len(b.rows) = Len(sh.data)
              /\ \A r \in 1..Len(b.rows) :
                    /\ Len(b.rows[r]) = Len(b.cols)
                    /\ \A c \in 1..Len(b.cols) :
                          b.rows[r][c] =
                             IF c <= sh.width THEN sh.data[r][c] ELSE <<>>
    /\ (ld_pc = "done" /\ ld_kind = "xlsx" /\ ld_frames = <<>>
          /\ ld_wb[1].width # ResolvedCount(ld_wb[1]))
       => ld_result = EmptyTable

\* C6 witness: a workbook of sheet A (3 columns under 12 names) and sheet E
\* (19 columns under 18 names) was loaded: the first block was padded, the
\* second cut.
C6_Witness ==
    /\ ld_pc = "done"
    /\ ld_wb = <<SheetA, SheetE>>
    /\ Len(ld_calls) = 2
    /\ Len(ld_calls[1].block.rows[1]) = 12
    /\ Len(ld_calls[2].block.rows[1]) = 18

Tags == {"A", "B", "C", "D", "E", "F", "K", "P", "Q", "R", "W"}

\* the sheet a returned row was read from: the tag in its project name
RowTag(row) == CHOOSE g \in Tags : \E c \in 1..Len(row) : row[c] = <<"p", g>>

\* the sheets of the workbook whose data rows hold tag g
SheetsTagged(g) ==
    { i \in 1..Len(ld_wb) :
        \E r \in 1..Len(ld_wb[i].data) : ld_wb[i].data[r][2] = <<"p", g>> }

\* sheet i of the workbook passes the sheet classifier
PassesClassifier(i) ==
    LET n == ParseHeaderFromRows(ld_wb[i].row0, ld_wb[i].row1)
    IN  /\ \E c \in 1..Len(n) : n[c] \in { <<"xuhao">>, <<"bianhao">> }
        /\ \E c \in 1..Len(n) :
              n[c] \in { <<"fenji">>, <<"zhuanye">>, <<"jine">>, <<"mingcheng">> }

\* C8 as stated: every row load_single_xlsx returns comes from a worksheet
\* that passes the sheet classifier.
C8_FailedSheetNeverContributes ==
    ld_pc = "done" /\ ld_kind = "xlsx" =>
        \A r \in 1..Len(ld_result.rows) :
            \A i \in SheetsTagged(RowTag(ld_result.rows[r])) : PassesClassifier(i)

\* C8 amended: a row of a worksheet that fails the classifier is returned
\* only when the loop kept no table at all and the worksheet is the first
\* one (the fallback of lines 364-381); a workbook of sheet A (nine valid
\* rows and a summary row) and the decorative sheet C yields nine rows.
C8_FailedSheetOnlyByFallback ==
    ld_pc = "done" /\ ld_kind = "xlsx" =>
        /\ \A r \in 1..Len(ld_result.rows) :
              \A i \in SheetsTagged(RowTag(ld_result.rows[r])) :
                 ~PassesClassifier(i) => ld_frames = <<>> /\ ld_wb[1] = ld_wb[i]
        /\ ld_wb = <<SheetA, SheetC>> =>
              /\ Len(ld_result.rows) = 9
              /\ \A r \in 1..9 : RowTag(ld_result.rows[r]) = "A"

\* C8 witness: the workbook of sheets A and C was loaded and nine rows came
\* back.
C8_Witness ==
    /\ ld_pc = "done"
    /\ ld_wb = <<SheetA, SheetC>>
    /\ Len(ld_frames) = 1
    /\ Len(ld_result.rows) = 9

\* tables of the merge that have one 备注 column each
EachHasRemarks ==
    \A k \in 1..Len(ld_frames) :
        Cardinality({ c \in 1..Len(ld_frames[k].cols) :
                        ld_frames[k].cols[c] = <<"beizhu">> }) = 1

\* C10 as stated: the merge of two tables that each have a column 备注 has
\* the columns 备注 and 备注_2.
C10_RemarksSuffixedAcrossTables ==
    ld_pc = "done" /\ Len(ld_frames) = 2 /\ EachHasRemarks =>
        /\ HasCol(ld_result.cols, <<"beizhu">>)
        /\ HasCol(ld_result.cols, <<"beizhu", "_", "2">>)

\* C10 amended: the merge of tables that each have one column 备注 has a
\* single column 备注 and no 备注_2; in it every row keeps the remark of
\* its source table.
C10_RemarksSharedAcrossTables ==
    ld_pc = "done" /\ Len(ld_frames) >= 2 /\ EachHasRemarks =>
        /\ Cardinality({ c \in 1..Len(ld_result.cols) :
                           ld_result.cols[c] = <<"beizhu">> }) = 1
        /\ ~HasCol(ld_result.cols, <<"beizhu", "_", "2">>)
        /\ \A r \in 1..Len(ld_result.rows) :
              ld_result.rows[r][ColIndex(ld_result.cols, <<"beizhu">>)]
                 = <<"r", RowTag(ld_result.rows[r])>>

\* C10 witness: sheets A and B, each with a column 备注, were merged into
\* eleven rows.
C10_Witness ==
    /\ ld_pc = "done"
    /\ ld_wb = <<SheetA, SheetB>>
    /\ Len(ld_frames) = 2
    /\ EachHasRemarks
    /\ Len(ld_result.rows) = 11

-----------------------------------------------------------------------------
(* Claims on merging: load_single_xlsx and load_from_directory *)

\* the cells of a row that are not missing
CellSet(row) == { row[c] : c \in 1..Len(row) } \ { NaNCell }

\* the rows of all the tables, the tables in the order given
RECURSIVE AllRows(_)
AllRows(frames) ==
    IF frames = <<>> THEN <<>>
    ELSE AllRows(SubSeq(frames, 1, Len(frames) - 1)) \o frames[Len(frames)].rows

\* a merge of at least one table has returned
Merged == ld_pc = "done" /\ ld_kind \in {"xlsx", "dir"} /\ ld_frames # <<>>

\* C11: the merged table holds the rows of the source tables, each table's
\* rows in their own order and the tables in the order supplied (worksheet
\* order, glob order), unsorted; its row count is the sum of the tables'.
C11_StableMerge ==
    Merged =>
        LET src == AllRows(ld_frames)
        IN  /\ Len(ld_result.rows) = Len(src)
            /\ \A i \in 1..Len(src) :
                  CellSet(ld_result.rows[i]) = CellSet(src[i])
            /\ \A i, j \in 1..Len(ld_result.rows) :
                  i < j => \E a \in SheetsTagged(RowTag(ld_result.rows[i])),
                              b \in SheetsTagged(RowTag(ld_result.rows[j])) : a <= b

\* C11 witness: the directory of files R and P was merged: the valid row of
\* R, then the two valid rows of P in their order.
C11_Witness ==
    /\ Merged
    /\ ld_wb = <<FileR, FileP>>
    /\ Len(ld_result.rows) = 3
    /\ RowTag(ld_result.rows[1]) = "R"
    /\ <<"1">> \in CellSet(ld_result.rows[2])
    /\ <<"2">> \in CellSet(ld_result.rows[3])

\* the names of a table's columns, as a set
ColSet(df) == { df.cols[c] : c \in 1..Len(df.cols) }

\* C12 as stated: neither merge ever raises; the merged table's columns are
\* the union of the source tables' columns, and a row of a table that lacks
\* a column holds a missing value under it.
C12_UnionMergeNeverRaises ==
    /\ ld_pc # "raised"
    /\ Merged =>
          /\ ColSet(ld_result) = UNION { ColSet(ld_frames[k]) : k \in 1..Len(ld_frames) }
          /\ Len(ld_result.rows) = Len(AllRows(ld_frames))

-----------------------------------------------------------------------------
(* Claims on location enrichment *)

\* a cell that holds no value: missing or empty
Absent(c) == c \in { <<>>, <<"n", "a", "n">> }

\* the cell of row r of table df under the column name (missing when the
\* table has no such column)
CellAt(df, r, name) ==
    IF \E c \in 1..Len(df.cols) : df.cols[c] = name
    THEN df.rows[r][CHOOSE c \in 1..Len(df.cols) : df.cols[c] = name]
    ELSE <<"n", "a", "n">>

\* C18 as stated: a record that carries an explicit city (城市) or region
\* (所属区域) from its source keeps that value through enrichment.
C18_ExplicitPlaceKept ==
    norm_pc = "enriched" =>
        \A r \in 1..Len(df_in.rows) :
            /\ ~Absent(CellAt(df_in, r, <<"chengshi">>)) =>
                  CellAt(df_loc, r, <<"chengshi">>) = CellAt(df_in, r, <<"chengshi">>)
            /\ ~Absent(CellAt(df_in, r, <<"quyu">>)) =>
                  CellAt(df_loc, r, <<"quyu">>) = CellAt(df_in, r, <<"quyu">>)

\* C19 as stated: after normalisation and enrichment every record has a
\* park, a region and a city, none absent.
C19_LocationTotal ==
    norm_pc = "enriched" =>
        \A r \in 1..Len(df_loc.rows) :
            /\ ~Absent(CellAt(df_loc, r, <<"yuanqu">>))
            /\ ~Absent(CellAt(df_loc, r, <<"quyu">>))
            /\ ~Absent(CellAt(df_loc, r, <<"chengshi">>))

\* C24 as stated: a record that comes with no park (the table has no park
\* column, the caller names no park and the file or sheet name holds no
\* token) and whose project name holds a park token gets that token as its
\* park.
C24_ParkFromOwnProjectName ==
    /\ norm_pc = "done"
    /\ park_arg = <<>>
    /\ FirstToken(from_arg, 1) = <<>>
    /\ ~HasCol(df_in.cols, <<"yuanqu">>) /\ ~HasCol(df_in.cols, <<"shequ">>)
    => \A r \in 1..Len(df_out.rows) :
          LET name == CellAt(df_out, r, <<"mingcheng">>)
          IN  FirstToken(name, 1) # <<>> =>
                  CellAt(df_out, r, <<"yuanqu">>) = FirstToken(name, 1)

-----------------------------------------------------------------------------
(* Claims on malformed input *)

\* C21 as stated: on every path, the directory included, a file whose bytes
\* no attempted encoding decodes ends the call with an error: no call that
\* was handed such a file returns.
C21_UndecodableSurfaced ==
    ld_pc = "done" /\ (AsCsv \/ ld_kind = "dir") =>
        \A i \in 1..Len(ld_wb) : ld_wb[i].readable

\* C20 as stated: no loader entry point raises on a malformed input; the
\* only input that makes a call raise is a file whose bytes no attempted
\* encoding decodes.
C20_OnlyUndecodableRaises ==
    ld_pc = "raised" =>
        /\ AsCsv
        /\ ~ld_wb[1].readable

-----------------------------------------------------------------------------
(* Claims on the table diff *)

\* the sequence numbers a table holds, as numbers
KeysOf(df) == { KeyFloat(df.rows[r][1]) : r \in 1..Len(df.rows) }

\* the rows of a table under the sequence number k, in their order
RowsUnder(df, k) ==
    SelectIdx(df.rows, { r \in 1..Len(df.rows) : KeyFloat(df.rows[r][1]) = k }, 1)

\* both tables are keyed by 序号: each has the column and a number in every
\* cell of it
BothKeyed ==
    /\ HasCol(diff_old.cols, <<"xuhao">>)
    /\ HasCol(diff_new.cols, <<"xuhao">>)
    /\ \A r \in 1..Len(diff_old.rows) : ToNumericOk(diff_old.rows[r][1])
    /\ \A r \in 1..Len(diff_new.rows) : ToNumericOk(diff_new.rows[r][1])

\* C27 as stated: deleted holds exactly the sequence numbers of old that new
\* lacks, added exactly those of new that old lacks, modified only numbers
\* of both whose rows differ; the three are pairwise disjoint and each
\* modified number has exactly one entry of modified_details.
C27_DiffPartition ==
    diff_pc = "done" /\ BothKeyed =>
        LET del == { d.key : d \in diff_out.deleted }
            add == { d.key : d \in diff_out.added }
            mod == { d.key : d \in diff_out.modified }
        IN  /\ del = KeysOf(diff_old) \ KeysOf(diff_new)
            /\ add = KeysOf(diff_new) \ KeysOf(diff_old)
            /\ \A k \in mod :
                  /\ k \in KeysOf(diff_old) \cap KeysOf(diff_new)
                  /\ RowsUnder(diff_old, k) # RowsUnder(diff_new, k)
            /\ del \cap add = {} /\ del \cap mod = {} /\ add \cap mod = {}
            /\ \A d \in diff_out.modified :
                  Cardinality({ e \in diff_out.modified_details : e.seq = d.key.whole }) = 1

-----------------------------------------------------------------------------
(* Claims on the wizard and the shared table *)

\* the table t without its row i
RemoveAt(t, i) == SubSeq(t, 1, i - 1) \o SubSeq(t, i + 1, Len(t))

\* the stored table held a record under another number than the one of the
\* operation, so that the table the delete saves is not empty
KeepsARecord(op) == \E r \in 1..Len(op.before) : op.before[r].seq # op.seq

\* C28 as stated: when one project is selected in the wizard by park and
\* sequence number and deleted or modified, exactly that one record is
\* removed or changed in the stored table and every other record is left
\* as it was. (The delete of the only number of the table is C29's case.)
C28_OnlySelectedRecordTouched ==
    \A s \in Sessions :
        LET op == ses_op[s]
        IN  /\ op.kind = "delete" /\ KeepsARecord(op) =>
                  \E i \in 1..Len(op.before) :
                      /\ op.before[i].park = op.park /\ op.before[i].seq = op.seq
                      /\ op.after = RemoveAt(op.before, i)
            /\ op.kind = "modify" =>
                  \E i \in 1..Len(op.before) :
                      /\ op.before[i].park = op.park /\ op.before[i].seq = op.seq
                      /\ Len(op.after) = Len(op.before)
                      /\ \A j \in 1..Len(op.before) : j # i => op.after[j] = op.before[j]

\* C29 as stated: after a wizard delete that was reported as successful,
\* load_from_db returns no record with the deleted sequence number, also
\* when the project deleted was the last one.
C29_DeletePersisted ==
    \A s \in Sessions :
        ses_op[s].kind = "delete" =>
            \A r \in 1..Len(LoadFromDb(ses_op[s].after)) :
                LoadFromDb(ses_op[s].after)[r].seq # ses_op[s].seq

\* C30 as stated: when two sessions each load the shared table, take max + 1
\* as the next sequence number, append one project and save the table, the
\* stored table holds both new projects in the end and their numbers differ
\* from each other and from every number that was there before.
C30_ConcurrentAddsKept ==
    (\A s \in Sessions : ses_op[s].kind = "add") =>
        /\ \A s \in Sessions :
              /\ \E r \in 1..Len(db) : db[r].token = s /\ db[r].seq = ses_op[s].seq
              /\ \A r \in 1..Len(db0) : db0[r].seq # ses_op[s].seq
        /\ \A s, t \in Sessions : s # t => ses_op[s].seq # ses_op[t].seq

====
